---------------------------- MODULE Spec2Model ----------------------------
(***************************************************************************)
(* Tunnel-and-query core of the metrics GUI.                               *)
(*                                                                         *)
(* This part models the connection layer: QueryManager.connect/close       *)
(* (src/query_manager.py), SSHDatabaseConnector (src/ssh_db_connector.py), *)
(* the credential editor (src/env_editor.py) and the GUI handlers that     *)
(* drive them (src/gui.py).  Every method is executed statement by         *)
(* statement by a caller thread, so that calls made from different threads *)
(* interleave the way Python threads do.                                   *)
(*                                                                         *)
(* The call site QueryManager.connect passes parent=self.root, a keyword   *)
(* SSHDatabaseConnector.connect_over_ssh of src/ssh_db_connector.py does   *)
(* not declare; the model binds the call to the body of that method.       *)
(***************************************************************************)
EXTENDS Naturals, FiniteSets, Sequences, TLC

\* ------------------------------------------------------------------ bounds
\* connectors constructed in one run (each connect attempt constructs one)
MaxAttempts == 2

Threads == {"t1", "t2"}
Ids == 1..MaxAttempts
Ref == 0..MaxAttempts            \* 0 is None

\* ------------------------------------------------------------- credentials
\* Two of the nine fields stand for all: the one connect_over_ssh tests
\* (SSH_PASSWORD) and one it passes on untested (MYSQL_USER).
Keys == {"SSH_PASSWORD", "MYSQL_USER"}
KeyOrder == <<"SSH_PASSWORD", "MYSQL_USER">>
Unset == "<unset>"
Vals == {"", "a", "b"}
\* no .env file: a file that exists gives every key a value
Absent == [k \in {"SSH_PASSWORD", "MYSQL_USER"} |-> "<unset>"]

\* Python truthiness of a credential value (None and "" are falsy)
Truthy(v) == v \notin {Unset, ""}

\* the placeholder file create_env_template writes: both fields left blank
EnvTemplate == [k \in Keys |-> ""]

\* load_dotenv(): copies the file's values into os.environ without overriding
\* a variable that is already set; no file, no change
LoadDotenv(file, env) ==
    IF file = Absent THEN env
    ELSE [k \in Keys |-> IF env[k] = Unset THEN file[k] ELSE env[k]]

\* create_env_template(): writes the template unless the file exists
CreateEnvTemplate(file) == IF file = Absent THEN EnvTemplate ELSE file

\* EnvEditor.on_save over the keys from position i on: a non-blank entry is
\* stored, a blank one deleted; deleting a key the store does not hold raises
\* and abandons the loop with the earlier keys already written
RECURSIVE OnSaveFrom(_, _, _)
OnSaveFrom(i, kr, entries) ==
    IF i > Len(KeyOrder) THEN [store |-> kr, saved |-> TRUE]
    ELSE LET k == KeyOrder[i]
             val == entries[k]
         IN IF val # ""
            THEN OnSaveFrom(i + 1, [kr EXCEPT ![k] = val], entries)
            ELSE IF kr[k] = Unset
                 THEN [store |-> kr, saved |-> FALSE]
                 ELSE OnSaveFrom(i + 1, [kr EXCEPT ![k] = Unset], entries)

VARIABLES
    dotenv,       \* the .env file: Absent or [Keys -> Vals]
    environ,      \* os.environ on Keys: [Keys -> Vals \cup {Unset}]
    keyring,      \* the keyring service "PlungeTubApp": [Keys -> Vals \cup {Unset}]
    qmConnector,  \* QueryManager.connector (Ref)
    qmEngine,     \* QueryManager.engine (Ref)
    nextId,       \* connectors constructed so far
    cEngine,      \* SSHDatabaseConnector.engine     of connector c
    cClient,      \* SSHDatabaseConnector.client     of connector c
    cTransport,   \* SSHDatabaseConnector.transport  of connector c
    cForwarder,   \* SSHDatabaseConnector.forwarder  of connector c
    cCreds,       \* the credential fields of connector c
    clientSt,     \* SSHClient a: "none", "new", "open", "closed"
    transportLive,\* the transport of SSHClient a is open
    fwdSt,        \* SSHForwardServer a: "none", "starting", "listening", "dead"
    engineLive,   \* engine a is built and not disposed
    pc,           \* the statement each thread is at
    self,         \* the connector whose method the thread runs
    att,          \* the id of the objects the thread's connect attempt creates
    retv,         \* the value connect_over_ssh returns to the thread
    ctx,          \* the call the thread is in came from a caller ("api") or
                  \* from open_env_editor through QueryManager.close ("close")
    lastOp,       \* the call the thread finished last
    ret,          \* its outcome: "none", "true", "false", "raised"
    isClosing,    \* MetricsApp.is_closing
    exited        \* the main loop has ended

connVars == <<cEngine, cClient, cTransport, cForwarder, cCreds>>
resVars == <<clientSt, transportLive, fwdSt, engineLive>>
storeVars == <<dotenv, environ, keyring>>
qmVars == <<qmConnector, qmEngine, nextId>>
callVars == <<self, att, retv, ctx, lastOp, ret>>
appVars == <<isClosing, exited>>
vars == <<storeVars, qmVars, connVars, resVars, pc, callVars, appVars>>

\* One SSHForwardServer in detail (the connection layer above keeps only
\* fwdSt of each forwarder).
VARIABLES
    fRunPc,       \* the statement SSHForwardServer.run is at ("off": no thread)
    fStopPc,      \* the statement SSHForwardServer.stop is at
    fRunning,     \* SSHForwardServer.running
    fSockRef,     \* SSHForwardServer.sock is not None
    fSockSt,      \* the listening socket: "none", "open", "bound",
                  \* "listening", "closed"
    backlog,      \* connections queued on the listening socket
    fCur,         \* the connection run() accepted and has not handed over
    nextConn,     \* connections accepted so far
    connSt,       \* client_sock of connection c: "none", "open", "closed"
    chanSt,       \* the SSH channel of connection c: "none", "open", "closed"
    relay,        \* the handler thread of connection c: "none", "relaying",
                  \* "ended", "failed"
    moved         \* chunks the handler of connection c has relayed

MaxConns == 3
MaxBytes == 1
ConnIds == 1..MaxConns

\* Window validation (MetricsApp._get_validated_date_range) and the query
\* (QueryManager.run_query).
VARIABLES
    startEntry,   \* the text of start_date_entry
    endEntry,     \* the text of end_date_entry
    clock,        \* the wall clock datetime.today() reads, in ticks
    wPc,          \* the statement _get_validated_date_range is at
    wStart,       \* its local start
    wEnd,         \* its local end
    wResult,      \* how its last call ended: "none", "ok", "order", "span"
    qStartDay,    \* start_date_str the worker passed to run_query
    qEndDay,      \* end_date_str the worker passed to run_query
    wRuns,        \* calls made so far
    metrics,      \* cp_device_metrics: updated_at (UTC) and device_name of
                  \* each row
    cpDevice,     \* cp_device: the esp_ble_id of each device_name
    filterType,   \* run_query's filter_type
    filterValue,  \* its filter_value
    rqPc,         \* the statement run_query is at
    rqStartDay,   \* its start_date_str
    rqEndDay,     \* its end_date_str
    pStart,       \* params["start_date"]
    pEnd,         \* params["end_date"]
    tsRange,      \* QueryManager.timestamp_range
    hasData,      \* the result of the existence probe
    nBefore,      \* the local before
    nAfter,       \* the local after
    rqOut,        \* how run_query ended: "none", "rows", "nodata"
    sig,          \* the NoDataInWindow raised
    issued,       \* the statements this call has executed on the engine
    fetched,      \* the rows of the fetch
    df,           \* the frame made of the result of the fetch (line 192)
    cur,          \* df as the normalization has changed it so far
    nPc,          \* the statement the normalization is at
    nOut          \* what the normalization returned: "none", "frame",
                  \* "empty"

\* One handler thread of the forwarder in detail (SSHForwardServer.handler):
\* the relay of connection Detailed, its two ends and their peers.
VARIABLES
    hPc,          \* the statement the handler is at ("off": not modelled)
    hR,           \* r, what select returned: a subset of {"sock", "chan"}
    hData,        \* data, the chunk recv returned
    hExc,         \* an exception is on its way out of the handler
    sent,         \* the bytes the peer of each direction has written so far
    inq,          \* of these, the bytes that wait unread at the handler's end
    outq,         \* the bytes delivered to the destination of each direction
    peerEof,      \* the ends whose peer has closed: recv returns b"" once
                  \* what waits has been read
    stalled       \* the directions whose destination accepts no write now

MaxSent == 2
RecvMax == 2

\* The threads of MetricsApp: the main thread in the Tk main loop, the query
\* worker that on_run starts and the search worker that run_search starts.
VARIABLES
    uiPc,         \* the main thread: "off" (not modelled), "loop" (in the
                  \* main loop), a statement of on_close, "gone" (destroyed)
    qw,           \* the statement _run_query_worker is at, and how far it
                  \* is inside the log() or safe_after() call made there
    swPc,         \* the statement _search_worker is at
    afters,       \* the callbacks scheduled with root.after and not yet run
    events        \* what the last step did: database calls, widget
                  \* calls, log lines, callbacks scheduled, each with the
                  \* thread that did it; and the statement the worker was
                  \* at when on_close set is_closing

\* time is counted in ticks; a second has SubTicks of them (a datetime is
\* finer than the "%H:%M:%S" text run_query binds), a day SecsPerDay seconds
SubTicks == 2
SecsPerDay == 2
DayTicks == SecsPerDay * SubTicks
MaxDay == 8
MaxRuns == 2
MaxQDay == 2
MaxRows == 3
MaxFilterRows == 2
MaxCols == 2
MaxDfRows == 2
MaxSpanDays == 7
EntryDays == 0..MaxDay

fwdVars == <<fRunPc, fStopPc, fRunning, fSockRef, fSockSt, backlog, fCur,
             nextConn, connSt, chanSt, relay, moved>>
winVars == <<startEntry, endEntry, clock, wPc, wStart, wEnd, wResult,
             qStartDay, qEndDay, wRuns>>
tableVars == <<metrics, cpDevice>>
argVars == <<filterType, filterValue, rqStartDay, rqEndDay>>
normVars == <<df, cur, nPc, nOut>>
qryVars == <<tableVars, argVars, rqPc, pStart, pEnd, tsRange, hasData, nBefore,
             nAfter, rqOut, sig, issued, fetched, normVars>>
rlyVars == <<hPc, hR, hData, hExc, sent, inq, outq, peerEof, stalled>>
uiVars == <<uiPc, qw, swPc, afters, events>>
detailVars == <<rlyVars, uiVars>>
extVars == <<fwdVars, winVars, qryVars, detailVars>>
allVars == <<vars, extVars>>

\* SSHForwardServer.__init__ (lines 12-19): no socket, not running
ForwarderNew ==
    /\ fRunning = FALSE
    /\ fSockRef = FALSE
    /\ fSockSt = "none"
    /\ backlog = 0
    /\ fCur = 0
    /\ nextConn = 0
    /\ connSt = [c \in ConnIds |-> "none"]
    /\ chanSt = [c \in ConnIds |-> "none"]
    /\ relay = [c \in ConnIds |-> "none"]
    /\ moved = [c \in ConnIds |-> 0]

\* entry text: blank, "YYYY-MM-DD" ("iso") or a date without its year
\* ("short"); day counts the days of the current year
Blank == [form |-> "blank", day |-> 0]
Texts == {Blank} \cup [form : {"iso", "short"}, day : EntryDays]
NoDt == [day |-> 0, tod |-> 0]

\* no forwarder thread
FwdIdle == fRunPc = "off" /\ fStopPc = "off" /\ ForwarderNew

\* both entries blank, no validation made
WindowNew ==
    /\ wStart = NoDt /\ wEnd = NoDt
    /\ wResult = "none"
    /\ qStartDay = 0 /\ qEndDay = 0
    /\ wRuns = 0

WinIdle ==
    /\ wPc = "off" /\ clock = 0
    /\ startEntry = Blank /\ endEntry = Blank
    /\ WindowNew

\* None is the empty set, a timestamp t the set {t}
NoRange == [earliest |-> {}, latest |-> {}]
NoSignal ==
    [earliest |-> {}, latest |-> {}, before |-> {}, after |-> {}, msg |-> ""]

\* the names in cp_device; filter values and esp_ble_id are drawn from the
\* same few values
DeviceNames == {1, 2}
FilterValues == DeviceNames

\* the locals of run_query before its first statement
LocalsNew ==
    /\ pStart = 0 /\ pEnd = 0
    /\ hasData = FALSE
    /\ nBefore = {} /\ nAfter = {}
    /\ rqOut = "none"
    /\ sig = NoSignal
    /\ issued = <<>>
    /\ fetched = {}

\* QueryManager.__init__ (line 21): timestamp_range = (None, None)
QueryNew == tsRange = NoRange /\ LocalsNew

\* pd.DataFrame(): no columns, no rows
EmptyFrame == [cols |-> {}, body |-> <<>>]

\* no result to normalize
NormIdle ==
    /\ nPc = "off" /\ nOut = "none"
    /\ df = EmptyFrame /\ cur = EmptyFrame

QryIdle ==
    /\ rqPc = "off" /\ metrics = {}
    /\ cpDevice = [n \in DeviceNames |-> n]
    /\ filterType = "device_name" /\ filterValue = 0
    /\ rqStartDay = 0 /\ rqEndDay = 0
    /\ QueryNew
    /\ NormIdle

\* the two directions of a relay: "up" from client_sock to the channel,
\* "down" from the channel to client_sock
Dirs == {"up", "down"}
Ends == {"sock", "chan"}

\* nothing has been written to either end and nobody has closed
RelayNew ==
    /\ hR = {} /\ hData = <<>> /\ hExc = FALSE
    /\ sent = [d \in Dirs |-> <<>>]
    /\ inq = [d \in Dirs |-> <<>>]
    /\ outq = [d \in Dirs |-> <<>>]
    /\ peerEof = {} /\ stalled = {}

RlyIdle == hPc = "off" /\ RelayNew

\* no worker thread is running and nothing is scheduled
UiNew ==
    /\ qw = [at |-> "off", sub |-> "body"]
    /\ swPc = "off"
    /\ afters = {}
    /\ events = {}

UiIdle == uiPc = "off" /\ UiNew

DetailIdle == RlyIdle /\ UiIdle

\* the parts modelled in detail are at rest
ExtIdle == FwdIdle /\ WinIdle /\ QryIdle /\ DetailIdle

NoCreds == [k \in Keys |-> Unset]

\* the connection layer after QueryManager.__init__
CoreInit ==
    /\ dotenv \in {Absent, [k \in Keys |-> "a"],
                  [k \in Keys |-> IF k = "MYSQL_USER" THEN "" ELSE "a"]}
    /\ environ = NoCreds
    /\ keyring = NoCreds
    /\ qmConnector = 0
    /\ qmEngine = 0
    /\ nextId = 0
    /\ cEngine = [c \in Ids |-> 0]
    /\ cClient = [c \in Ids |-> 0]
    /\ cTransport = [c \in Ids |-> 0]
    /\ cForwarder = [c \in Ids |-> 0]
    /\ cCreds = [c \in Ids |-> NoCreds]
    /\ clientSt = [a \in Ids |-> "none"]
    /\ transportLive = [a \in Ids |-> FALSE]
    /\ fwdSt = [a \in Ids |-> "none"]
    /\ engineLive = [a \in Ids |-> FALSE]
    /\ pc = [t \in Threads |-> "idle"]
    /\ self = [t \in Threads |-> 0]
    /\ att = [t \in Threads |-> 0]
    /\ retv = [t \in Threads |-> 0]
    /\ ctx = [t \in Threads |-> "api"]
    /\ lastOp = [t \in Threads |-> "none"]
    /\ ret = [t \in Threads |-> "none"]
    /\ isClosing = FALSE
    /\ exited = FALSE

Init == CoreInit /\ ExtIdle

\* a call of thread t ends with outcome r
Finish(t, op, r) ==
    /\ pc' = [pc EXCEPT ![t] = "idle"]
    /\ lastOp' = [lastOp EXCEPT ![t] = op]
    /\ ret' = [ret EXCEPT ![t] = r]
    /\ UNCHANGED extVars

Goto(t, label) == pc' = [pc EXCEPT ![t] = label] /\ UNCHANGED extVars

\* a call of thread t starts: its frame holds connector c and nothing else
Enter(t, c, by) ==
    /\ self' = [self EXCEPT ![t] = c]
    /\ att' = [att EXCEPT ![t] = 0]
    /\ retv' = [retv EXCEPT ![t] = 0]
    /\ ctx' = [ctx EXCEPT ![t] = by]


\* ------------------------------------------------- QueryManager.connect
\* a connect() that ignores the engine it holds and always builds anew
NeedsConnectAlways == TRUE

\* line 46: "if not self.engine"
NeedsConnect == qmEngine = 0

\* lines 45-46 and 53: an engine is held, so connect() returns True at once;
\* otherwise it goes on to build a connector
ConnectCheck(t) ==
    /\ pc[t] = "idle"
    /\ Enter(t, 0, "api")
    /\ IF NeedsConnect
       THEN /\ nextId < MaxAttempts
            /\ Goto(t, "c_new")
            /\ UNCHANGED <<lastOp, ret>>
       ELSE Finish(t, "connect", "true")
    /\ UNCHANGED <<storeVars, qmVars, connVars, resVars, appVars>>

\* line 47: self.connector = SSHDatabaseConnector(); the constructor leaves
\* every field None and reserves a local port
ConnectNew(t) ==
    /\ pc[t] = "c_new"
    /\ nextId < MaxAttempts
    /\ nextId' = nextId + 1
    /\ qmConnector' = nextId + 1
    /\ att' = [att EXCEPT ![t] = nextId + 1]
    /\ Goto(t, "c_call")
    /\ UNCHANGED <<storeVars, qmEngine, connVars, resVars, appVars,
                   self, retv, ctx, lastOp, ret>>

\* line 48: self.connector.connect_over_ssh(...): self.connector is read
\* again, and calling a method of None raises
ConnectCall(t) ==
    /\ pc[t] = "c_call"
    /\ IF qmConnector = 0
       THEN Finish(t, "connect", "raised") /\ UNCHANGED self
       ELSE /\ self' = [self EXCEPT ![t] = qmConnector]
            /\ Goto(t, "s_env")
            /\ UNCHANGED <<lastOp, ret>>
    /\ UNCHANGED <<storeVars, qmVars, connVars, resVars, appVars,
                   att, retv, ctx>>

\* ------------------------------- SSHDatabaseConnector.connect_over_ssh
\* lines 221-224: the handler prints, writes the .env template and re-raises;
\* nothing the attempt created is closed.  QueryManager.connect has no handler.
Fail(t) ==
    /\ dotenv' = CreateEnvTemplate(dotenv)
    /\ Finish(t, "connect", "raised")

\* get_env_params: load_dotenv(), then every field from os.environ
GetEnvParams(t) ==
    /\ pc[t] = "s_env"
    /\ environ' = LoadDotenv(dotenv, environ)
    /\ cCreds' = [cCreds EXCEPT ![self[t]] = environ']
    /\ Goto(t, "s_client")
    /\ UNCHANGED <<dotenv, keyring, qmVars, cEngine, cClient, cTransport,
                   cForwarder, resVars, appVars, callVars>>

\* lines 161-162: self.client = paramiko.SSHClient()
NewClient(t) ==
    /\ pc[t] = "s_client"
    /\ cClient' = [cClient EXCEPT ![self[t]] = att[t]]
    /\ clientSt' = [clientSt EXCEPT ![att[t]] = "new"]
    /\ Goto(t, "s_pw")
    /\ UNCHANGED <<storeVars, qmVars, cEngine, cTransport, cForwarder, cCreds,
                   transportLive, fwdSt, engineLive, appVars, callVars>>

\* line 172: "if self.ssh_password"
HasPassword(c) == Truthy(cCreds[c]["SSH_PASSWORD"])

\* lines 172-175: only the SSH password is tested; without it ValueError
CheckPassword(t) ==
    /\ pc[t] = "s_pw"
    /\ IF HasPassword(self[t])
       THEN Goto(t, "s_connect") /\ UNCHANGED <<dotenv, lastOp, ret>>
       ELSE Fail(t)
    /\ UNCHANGED <<environ, keyring, qmVars, connVars, resVars, appVars,
                   self, att, retv, ctx>>

\* line 177: self.client.connect(...) and the server accepts; self.client is
\* read again, and calling a method of None raises
SshConnect(t) ==
    /\ pc[t] = "s_connect"
    /\ LET cl == cClient[self[t]] IN
       IF cl # 0
       THEN /\ clientSt' = [clientSt EXCEPT ![cl] = "open"]
            /\ transportLive' = [transportLive EXCEPT ![cl] = TRUE]
            /\ Goto(t, "s_transport")
            /\ UNCHANGED <<dotenv, lastOp, ret>>
       ELSE Fail(t) /\ UNCHANGED <<clientSt, transportLive>>
    /\ UNCHANGED <<environ, keyring, qmVars, connVars, fwdSt, engineLive,
                   appVars, self, att, retv, ctx>>

\* line 177: the server refuses (authentication, timeout, no route)
SshConnectFails(t) ==
    /\ pc[t] = "s_connect"
    /\ Fail(t)
    /\ UNCHANGED <<environ, keyring, qmVars, connVars, resVars,
                   appVars, self, att, retv, ctx>>

\* lines 178-179: self.transport = self.client.get_transport(), which is None
\* for a client that is not connected, and set_keepalive on it
GetTransport(t) ==
    /\ pc[t] = "s_transport"
    /\ LET cl == cClient[self[t]] IN
       IF cl # 0 /\ clientSt[cl] = "open"
       THEN /\ cTransport' = [cTransport EXCEPT ![self[t]] = cl]
            /\ Goto(t, "s_fwd")
            /\ UNCHANGED <<dotenv, lastOp, ret>>
       ELSE /\ cTransport' = [cTransport EXCEPT ![self[t]] =
                                 IF cl = 0 THEN @ ELSE 0]
            /\ Fail(t)
    /\ UNCHANGED <<environ, keyring, qmVars, cEngine, cClient, cForwarder,
                   cCreds, resVars, appVars, self, att, retv, ctx>>

\* lines 182-188: the forwarder thread is built on the connector's port and
\* started
StartForwarder(t) ==
    /\ pc[t] = "s_fwd"
    /\ cForwarder' = [cForwarder EXCEPT ![self[t]] = att[t]]
    /\ fwdSt' = [fwdSt EXCEPT ![att[t]] = "starting"]
    /\ Goto(t, "s_engine")
    /\ UNCHANGED <<storeVars, qmVars, cEngine, cClient, cTransport, cCreds,
                   clientSt, transportLive, engineLive, appVars, callVars>>

\* lines 191-211: self.engine = create_engine(...)
CreateEngine(t) ==
    /\ pc[t] = "s_engine"
    /\ cEngine' = [cEngine EXCEPT ![self[t]] = att[t]]
    /\ engineLive' = [engineLive EXCEPT ![att[t]] = TRUE]
    /\ Goto(t, "s_health")
    /\ UNCHANGED <<storeVars, qmVars, cClient, cTransport, cForwarder, cCreds,
                   clientSt, transportLive, fwdSt, appVars, callVars>>

\* lines 191-205: create_engine rejects its URL or finds no driver
CreateEngineFails(t) ==
    /\ pc[t] = "s_engine"
    /\ Fail(t)
    /\ UNCHANGED <<environ, keyring, qmVars, connVars, resVars,
                   appVars, self, att, retv, ctx>>

\* a forwarder thread has been started for connector c, listening or not
TunnelStarted(c) == cForwarder[c] # 0

\* the engine of connector c can reach the database: its forwarder listens
\* and the SSH transport behind it is open
TunnelUp(c) ==
    /\ cForwarder[c] # 0 /\ fwdSt[cForwarder[c]] = "listening"
    /\ cTransport[c] # 0 /\ transportLive[cTransport[c]]

\* lines 214-218: SELECT 1 and SHOW COLUMNS through self.engine; the round
\* trip needs the tunnel, which the forwarder thread may not have opened yet
HealthCheck(t) ==
    /\ pc[t] = "s_health"
    /\ IF cEngine[self[t]] # 0 /\ TunnelUp(self[t])
       THEN Goto(t, "s_ret") /\ UNCHANGED <<dotenv, lastOp, ret>>
       ELSE Fail(t)
    /\ UNCHANGED <<environ, keyring, qmVars, connVars, resVars, appVars,
                   self, att, retv, ctx>>

\* lines 214-218: the database refuses the login or the query
HealthCheckFails(t) ==
    /\ pc[t] = "s_health"
    /\ Fail(t)
    /\ UNCHANGED <<environ, keyring, qmVars, connVars, resVars,
                   appVars, self, att, retv, ctx>>

\* line 220: return self.engine
ReturnEngine(t) ==
    /\ pc[t] = "s_ret"
    /\ retv' = [retv EXCEPT ![t] = cEngine[self[t]]]
    /\ Goto(t, "c_store")
    /\ UNCHANGED <<storeVars, qmVars, connVars, resVars, appVars,
                   self, att, ctx, lastOp, ret>>

\* lines 49-53: None counts as cancelled and gives False; an engine is kept
StoreEngine(t) ==
    /\ pc[t] = "c_store"
    /\ IF retv[t] = 0
       THEN Finish(t, "connect", "false") /\ UNCHANGED qmEngine
       ELSE qmEngine' = retv[t] /\ Finish(t, "connect", "true")
    /\ UNCHANGED <<storeVars, qmConnector, nextId, connVars, resVars, appVars,
                   self, att, retv, ctx>>

\* SSHForwardServer.run up to the accept loop: bind and listen on the port
\* reserved earlier
ForwarderRun(a) ==
    /\ ~exited
    /\ fwdSt[a] = "starting"
    /\ fwdSt' = [fwdSt EXCEPT ![a] = "listening"]
    /\ UNCHANGED <<storeVars, qmVars, connVars, clientSt, transportLive,
                   engineLive, pc, callVars, appVars, extVars>>

\* SSHForwardServer.run: another socket holds the port by now, bind raises
\* and the thread ends
ForwarderBindFails(a) ==
    /\ ~exited
    /\ fwdSt[a] = "starting"
    /\ fwdSt' = [fwdSt EXCEPT ![a] = "dead"]
    /\ UNCHANGED <<storeVars, qmVars, connVars, clientSt, transportLive,
                   engineLive, pc, callVars, appVars, extVars>>

\* ----------------------------------- SSHDatabaseConnector.disconnect
\* disconnect() has no handler of its own: an exception leaves it at once.
\* Called from QueryManager.close the exception is swallowed there and close
\* goes on to its own engine.dispose().
DisconnectRaise(t) ==
    IF ctx[t] = "api"
    THEN Finish(t, "disconnect", "raised")
    ELSE Goto(t, "cl_eng") /\ UNCHANGED <<lastOp, ret>>

\* disconnect() runs off its end
DisconnectReturn(t) ==
    IF ctx[t] = "api"
    THEN Finish(t, "disconnect", "true")
    ELSE Goto(t, "cl_eng") /\ UNCHANGED <<lastOp, ret>>

\* a caller invokes disconnect() on the connector the QueryManager holds
DisconnectCall(t) ==
    /\ pc[t] = "idle"
    /\ qmConnector # 0
    /\ Enter(t, qmConnector, "api")
    /\ Goto(t, "d_eng")
    /\ UNCHANGED <<storeVars, qmVars, connVars, resVars, appVars, lastOp, ret>>

\* lines 228, 232, 238, 242: "if self.<field>:" guards each teardown step
DisconnectTest(t) ==
    /\ pc[t] \in {"d_eng", "d_fwd", "d_tr", "d_cl"}
    /\ \/ /\ pc[t] = "d_eng"
          /\ Goto(t, IF cEngine[self[t]] # 0 THEN "d_eng_dispose" ELSE "d_fwd")
          /\ UNCHANGED <<lastOp, ret>>
       \/ /\ pc[t] = "d_fwd"
          /\ Goto(t, IF cForwarder[self[t]] # 0 THEN "d_fwd_stop" ELSE "d_tr")
          /\ UNCHANGED <<lastOp, ret>>
       \/ /\ pc[t] = "d_tr"
          /\ Goto(t, IF cTransport[self[t]] # 0 THEN "d_tr_close" ELSE "d_cl")
          /\ UNCHANGED <<lastOp, ret>>
       \/ /\ pc[t] = "d_cl"
          /\ IF cClient[self[t]] # 0
             THEN Goto(t, "d_cl_close") /\ UNCHANGED <<lastOp, ret>>
             ELSE DisconnectReturn(t)
    /\ UNCHANGED <<storeVars, qmVars, connVars, resVars, appVars,
                   self, att, retv, ctx>>

\* line 230: self.engine.dispose(); the field is read again, and calling a
\* method of None raises
DisposeEngine(t) ==
    /\ pc[t] = "d_eng_dispose"
    /\ LET e == cEngine[self[t]] IN
       IF e # 0
       THEN /\ engineLive' = [engineLive EXCEPT ![e] = FALSE]
            /\ Goto(t, "d_eng_clear")
            /\ UNCHANGED <<lastOp, ret>>
       ELSE /\ DisconnectRaise(t)
            /\ UNCHANGED engineLive
    /\ UNCHANGED <<storeVars, qmVars, connVars, clientSt, transportLive, fwdSt,
                   appVars, self, att, retv, ctx>>

\* line 230: dispose() itself raises and the pool stays as it is
DisposeEngineFails(t) ==
    /\ pc[t] = "d_eng_dispose"
    /\ cEngine[self[t]] # 0
    /\ DisconnectRaise(t)
    /\ UNCHANGED <<storeVars, qmVars, connVars, resVars,
                   appVars, self, att, retv, ctx>>

\* SSHForwardServer.stop on a forwarder in state st: a listening socket is
\* woken and closed; before run() has made its socket, stop() finds nothing
\* to close and run() may still come up
StopOutcomes(st) ==
    IF st = "listening" THEN {"dead"}
    ELSE IF st = "starting" THEN {"starting", "dead"}
    ELSE {st}

\* lines 234-236: self.forwarder.stop(), join(timeout=2.0), is_alive()
StopForwarder(t) ==
    /\ pc[t] = "d_fwd_stop"
    /\ LET f == cForwarder[self[t]] IN
       IF f # 0
       THEN /\ \E st \in StopOutcomes(fwdSt[f]) :
                  fwdSt' = [fwdSt EXCEPT ![f] = st]
            /\ Goto(t, "d_fwd_clear")
            /\ UNCHANGED <<lastOp, ret>>
       ELSE /\ DisconnectRaise(t)
            /\ UNCHANGED fwdSt
    /\ UNCHANGED <<storeVars, qmVars, connVars, clientSt, transportLive,
                   engineLive, appVars, self, att, retv, ctx>>

\* line 240: self.transport.close()
CloseTransport(t) ==
    /\ pc[t] = "d_tr_close"
    /\ LET tr == cTransport[self[t]] IN
       IF tr # 0
       THEN /\ transportLive' = [transportLive EXCEPT ![tr] = FALSE]
            /\ Goto(t, "d_tr_clear")
            /\ UNCHANGED <<lastOp, ret>>
       ELSE /\ DisconnectRaise(t)
            /\ UNCHANGED transportLive
    /\ UNCHANGED <<storeVars, qmVars, connVars, clientSt, fwdSt, engineLive,
                   appVars, self, att, retv, ctx>>

\* line 240: close() itself raises and the transport stays open
CloseTransportFails(t) ==
    /\ pc[t] = "d_tr_close"
    /\ cTransport[self[t]] # 0
    /\ DisconnectRaise(t)
    /\ UNCHANGED <<storeVars, qmVars, connVars, resVars,
                   appVars, self, att, retv, ctx>>

\* line 244: self.client.close(), which closes the client's transport too
CloseClient(t) ==
    /\ pc[t] = "d_cl_close"
    /\ LET cl == cClient[self[t]] IN
       IF cl # 0
       THEN /\ clientSt' = [clientSt EXCEPT ![cl] = "closed"]
            /\ transportLive' = [transportLive EXCEPT ![cl] = FALSE]
            /\ Goto(t, "d_cl_clear")
            /\ UNCHANGED <<lastOp, ret>>
       ELSE /\ DisconnectRaise(t)
            /\ UNCHANGED <<clientSt, transportLive>>
    /\ UNCHANGED <<storeVars, qmVars, connVars, fwdSt, engineLive,
                   appVars, self, att, retv, ctx>>

\* line 244: close() itself raises and the client stays open
CloseClientFails(t) ==
    /\ pc[t] = "d_cl_close"
    /\ cClient[self[t]] # 0
    /\ DisconnectRaise(t)
    /\ UNCHANGED <<storeVars, qmVars, connVars, resVars,
                   appVars, self, att, retv, ctx>>

\* lines 231, 237, 241, 245: self.<field> = None
DisconnectClear(t) ==
    /\ pc[t] \in {"d_eng_clear", "d_fwd_clear", "d_tr_clear", "d_cl_clear"}
    /\ \/ /\ pc[t] = "d_eng_clear"
          /\ cEngine' = [cEngine EXCEPT ![self[t]] = 0]
          /\ Goto(t, "d_fwd")
          /\ UNCHANGED <<cForwarder, cTransport, cClient, lastOp, ret>>
       \/ /\ pc[t] = "d_fwd_clear"
          /\ cForwarder' = [cForwarder EXCEPT ![self[t]] = 0]
          /\ Goto(t, "d_tr")
          /\ UNCHANGED <<cEngine, cTransport, cClient, lastOp, ret>>
       \/ /\ pc[t] = "d_tr_clear"
          /\ cTransport' = [cTransport EXCEPT ![self[t]] = 0]
          /\ Goto(t, "d_cl")
          /\ UNCHANGED <<cEngine, cForwarder, cClient, lastOp, ret>>
       \/ /\ pc[t] = "d_cl_clear"
          /\ cClient' = [cClient EXCEPT ![self[t]] = 0]
          /\ DisconnectReturn(t)
          /\ UNCHANGED <<cEngine, cForwarder, cTransport>>
    /\ UNCHANGED <<storeVars, qmVars, cCreds, resVars, appVars,
                   self, att, retv, ctx>>

\* ------------------------------------------------------ the GUI thread
\* the one thread that runs the Tk handlers
Gui == "t1"

\* MetricsApp.open_env_editor with "Save & Continue": on_save writes the
\* entries to the keyring; when it completes, the handler goes on to
\* query_manager.close().  An on_save that raised leaves the dialog open.
\* The user types a password and types or leaves blank the other field.
EnvEditorSave(t) ==
    /\ t = Gui
    /\ pc[t] = "idle"
    /\ \E entries \in {e \in [Keys -> {"", "b"}] : e["SSH_PASSWORD"] = "b"} :
          LET r == OnSaveFrom(1, keyring, entries) IN
          /\ keyring' = r.store
          /\ IF r.saved
             THEN /\ Goto(t, "cl_start")
                  /\ UNCHANGED <<lastOp, ret>>
             ELSE Finish(t, "editor", "raised")
    /\ Enter(t, 0, "close")
    /\ UNCHANGED <<dotenv, environ, qmVars, connVars, resVars, appVars>>

\* QueryManager.close, lines 257-261: "if self.connector:" disconnect it,
\* whatever it raises being dropped
CloseConnector(t) ==
    /\ pc[t] = "cl_start"
    /\ IF qmConnector # 0
       THEN /\ self' = [self EXCEPT ![t] = qmConnector]
            /\ Goto(t, "d_eng")
       ELSE /\ Goto(t, "cl_eng")
            /\ UNCHANGED self
    /\ UNCHANGED <<storeVars, qmVars, connVars, resVars, appVars,
                   att, retv, ctx, lastOp, ret>>

\* QueryManager.close runs off its end: back in open_env_editor (line 154)
\* or at the caller of close()
CloseReturn(t) ==
    IF ctx[t] = "close"
    THEN Goto(t, "ed_engine") /\ UNCHANGED <<lastOp, ret>>
    ELSE Finish(t, "close", "true")

\* QueryManager.close, lines 262-266: "if self.engine:" dispose it, whatever
\* it raises being dropped; self.engine is left as it is
CloseEngine(t) ==
    /\ pc[t] = "cl_eng"
    /\ engineLive' = IF qmEngine # 0
                     THEN [engineLive EXCEPT ![qmEngine] = FALSE]
                     ELSE engineLive
    /\ CloseReturn(t)
    /\ UNCHANGED <<storeVars, qmVars, connVars, clientSt, transportLive, fwdSt,
                   appVars, self, att, retv, ctx>>

\* lines 262-266: dispose() raises, which close() drops
CloseEngineFails(t) ==
    /\ pc[t] = "cl_eng"
    /\ qmEngine # 0
    /\ CloseReturn(t)
    /\ UNCHANGED <<storeVars, qmVars, connVars, resVars, appVars,
                   self, att, retv, ctx>>

\* open_env_editor, lines 154-155: the engine and the connector are dropped
EnvEditorReset(t) ==
    /\ pc[t] \in {"ed_engine", "ed_conn"}
    /\ \/ /\ pc[t] = "ed_engine"
          /\ qmEngine' = 0
          /\ Goto(t, "ed_conn")
          /\ UNCHANGED <<qmConnector, lastOp, ret>>
       \/ /\ pc[t] = "ed_conn"
          /\ qmConnector' = 0
          /\ Finish(t, "editor", "true")
          /\ UNCHANGED qmEngine
    /\ UNCHANGED <<storeVars, nextId, connVars, resVars, appVars,
                   self, att, retv, ctx>>

\* MetricsApp.on_close: a second call returns at once; the first saves the
\* configuration, cancels the timers and destroys the root window, which ends
\* the main loop.  Worker threads are daemons and are not joined: every
\* thread of the process stops where it is.
OnClose(t) ==
    /\ t = Gui
    /\ pc[t] = "idle"
    /\ ~isClosing
    /\ isClosing' = TRUE
    /\ exited' = TRUE
    /\ pc' = [u \in Threads |-> "exit"]
    /\ UNCHANGED <<storeVars, qmVars, connVars, resVars, callVars, extVars>>

\* ------------------------------------------------------ specifications
\* QueryManager.connect, statement by statement
ConnectStep(t) ==
    \/ ConnectCheck(t)
    \/ ConnectNew(t)
    \/ ConnectCall(t)
    \/ GetEnvParams(t)
    \/ NewClient(t)
    \/ CheckPassword(t)
    \/ SshConnect(t)
    \/ GetTransport(t)
    \/ StartForwarder(t)
    \/ CreateEngine(t)
    \/ HealthCheck(t)
    \/ ReturnEngine(t)
    \/ StoreEngine(t)

\* SSHDatabaseConnector.disconnect, statement by statement
DisconnectStep(t) ==
    \/ DisconnectTest(t)
    \/ DisposeEngine(t)
    \/ StopForwarder(t)
    \/ CloseTransport(t)
    \/ CloseClient(t)
    \/ DisconnectClear(t)

\* the Tk handlers
GuiStep(t) ==
    \/ EnvEditorSave(t)
    \/ CloseConnector(t)
    \/ CloseEngine(t)
    \/ EnvEditorReset(t)
    \/ OnClose(t)

\* a server or a library call refuses
FaultStep(t) ==
    \/ SshConnectFails(t)
    \/ CreateEngineFails(t)
    \/ HealthCheckFails(t)
    \/ DisposeEngineFails(t)
    \/ CloseTransportFails(t)
    \/ CloseClientFails(t)
    \/ CloseEngineFails(t)

\* One caller at a time: every call is made from one thread, beside the
\* forwarder threads, and any call to a server or a library may be refused.
Next ==
    \/ ConnectStep(Gui)
    \/ DisconnectCall(Gui)
    \/ DisconnectStep(Gui)
    \/ GuiStep(Gui)
    \/ FaultStep(Gui)
    \/ \E a \in Ids : ForwarderRun(a)
    \/ \E a \in Ids : ForwarderBindFails(a)

Spec == Init /\ [][Next]_vars

\* Concurrent connect() calls, as made by the worker threads that
\* MetricsApp.on_run starts, with disconnect() calls from the GUI thread, on
\* a complete .env file and with no call refused.
InitThreads == Init /\ \A k \in Keys : dotenv[k] = "a"

NextThreads ==
    \/ \E t \in Threads : ConnectStep(t)
    \/ DisconnectCall(Gui)
    \/ DisconnectStep(Gui)
    \/ \E a \in Ids : ForwarderRun(a)

SpecThreads == InitThreads /\ [][NextThreads]_vars

\* The state a first successful connect() from the GUI thread leaves.
CoreConnected ==
    /\ dotenv = [k \in Keys |-> "a"]
    /\ environ = [k \in Keys |-> "a"]
    /\ keyring = NoCreds
    /\ qmConnector = 1
    /\ qmEngine = 1
    /\ nextId = 1
    /\ cEngine = [c \in Ids |-> IF c = 1 THEN 1 ELSE 0]
    /\ cClient = [c \in Ids |-> IF c = 1 THEN 1 ELSE 0]
    /\ cTransport = [c \in Ids |-> IF c = 1 THEN 1 ELSE 0]
    /\ cForwarder = [c \in Ids |-> IF c = 1 THEN 1 ELSE 0]
    /\ cCreds = [c \in Ids |-> IF c = 1 THEN [k \in Keys |-> "a"] ELSE NoCreds]
    /\ clientSt = [a \in Ids |-> IF a = 1 THEN "open" ELSE "none"]
    /\ transportLive = [a \in Ids |-> a = 1]
    /\ fwdSt = [a \in Ids |-> IF a = 1 THEN "listening" ELSE "none"]
    /\ engineLive = [a \in Ids |-> a = 1]
    /\ pc = [t \in Threads |-> "idle"]
    /\ self = [t \in Threads |-> IF t = Gui THEN 1 ELSE 0]
    /\ att = [t \in Threads |-> IF t = Gui THEN 1 ELSE 0]
    /\ retv = [t \in Threads |-> IF t = Gui THEN 1 ELSE 0]
    /\ ctx = [t \in Threads |-> "api"]
    /\ lastOp = [t \in Threads |-> IF t = Gui THEN "connect" ELSE "none"]
    /\ ret = [t \in Threads |-> IF t = Gui THEN "true" ELSE "none"]
    /\ isClosing = FALSE
    /\ exited = FALSE

ConnectedState == CoreConnected /\ ExtIdle

\* Concurrent disconnect() calls on the connected connector, no call refused.
NextTeardown ==
    \/ \E t \in Threads : DisconnectCall(t)
    \/ \E t \in Threads : DisconnectStep(t)

SpecTeardown == ConnectedState /\ [][NextTeardown]_vars

\* ------------------------------------------------------------- claims
\* something of connect attempt a is live: its SSH client or transport is
\* open, its forwarder thread runs, or its engine is not disposed
AttemptLive(a) ==
    \/ clientSt[a] = "open"
    \/ transportLive[a]
    \/ fwdSt[a] \in {"starting", "listening"}
    \/ engineLive[a]

\* connector c holds nothing and nothing it made is live (with one caller
\* connector c makes the objects numbered c)
Released(c) ==
    /\ cEngine[c] = 0 /\ cForwarder[c] = 0 /\ cTransport[c] = 0 /\ cClient[c] = 0
    /\ ~AttemptLive(c)

\* some required field of connector c is empty
MissingCreds(c) == \E k \in Keys : ~Truthy(cCreds[c][k])

DisconnectPcs ==
    {"d_eng", "d_eng_dispose", "d_eng_clear", "d_fwd", "d_fwd_stop",
     "d_fwd_clear", "d_tr", "d_tr_close", "d_tr_clear", "d_cl", "d_cl_close",
     "d_cl_clear"}
TeardownCalls == {"d_eng_dispose", "d_fwd_stop", "d_tr_close", "d_cl_close"}
AfterPasswordPcs ==
    {"s_connect", "s_transport", "s_fwd", "s_engine", "s_health", "s_ret",
     "c_store"}
InDisconnect(t) == pc[t] \in DisconnectPcs

\* C1: connect() called while the QueryManager holds an engine returns True
\* at once: it builds no connector, creates, opens or closes nothing, and the
\* engine held before the call is the one held after it.
C1_ConnectNoOp ==
    [][\A t \in Threads :
          (qmEngine # 0 /\ ConnectCheck(t)) =>
             /\ pc'[t] = "idle"
             /\ lastOp'[t] = "connect" /\ ret'[t] = "true"
             /\ qmEngine' = qmEngine
             /\ UNCHANGED <<qmConnector, nextId, connVars, resVars>>]_vars

\* a connect() that found an engine and returned True without an attempt
C1_Witness ==
    \E t \in Threads :
       /\ pc[t] = "idle" /\ lastOp[t] = "connect" /\ ret[t] = "true"
       /\ att[t] = 0 /\ qmEngine # 0

\* C2: at any moment at most one Session is live in the process: at most one
\* open SSH client, one running forwarder and one undisposed engine.
C2_AtMostOneSession ==
    /\ Cardinality({a \in Ids : clientSt[a] = "open"}) <= 1
    /\ Cardinality({a \in Ids : fwdSt[a] \in {"starting", "listening"}}) <= 1
    /\ Cardinality({a \in Ids : engineLive[a]}) <= 1

\* C3: after a connect() that raised, nothing the attempt created is live:
\* no open SSH client or transport, no forwarder thread, no engine.
C3_FailedConnectIsClean ==
    \A t \in Threads :
       (pc[t] = "idle" /\ lastOp[t] = "connect" /\ ret[t] = "raised"
          /\ att[t] # 0)
       => ~AttemptLive(att[t])

\* C4: of two disconnect() calls in a row neither raises, the second makes
\* no dispose, stop or close call, and it leaves the connector Disconnected
\* with engine, forwarder, transport and client released.
C4_DisconnectTwice ==
    [][\A t \in Threads :
          (InDisconnect(t) /\ ctx[t] = "api") =>
             /\ pc'[t] = "idle" => ret'[t] = "true"
             /\ lastOp[t] = "disconnect" =>
                   /\ pc'[t] \notin TeardownCalls
                   /\ pc'[t] = "idle" => Released(self[t])']_vars

\* C5: with two threads calling disconnect() at once no call raises.
C5_ConcurrentDisconnect ==
    \A t \in Threads :
       (pc[t] = "idle" /\ lastOp[t] = "disconnect") => ret[t] = "true"

\* C6: disconnect() is left only after its last step, the client's, and
\* without raising, whatever its dispose, stop and close calls do.
C6_TeardownBestEffort ==
    [][\A t \in Threads :
          (InDisconnect(t) /\ ~InDisconnect(t)') =>
             /\ pc[t] \in {"d_cl", "d_cl_clear"}
             /\ pc'[t] = "idle" => ret'[t] = "true"]_vars

\* C7: a connect() attempt whose credentials are missing and stay missing
\* goes from the credential step straight back to idle with the cancelled
\* result False, not with an exception and not on to the SSH connection.
C7_CancelGoesDisconnected ==
    [][\A t \in Threads :
          (pc[t] = "s_pw" /\ MissingCreds(self[t]) /\ pc'[t] # "s_pw") =>
             (pc'[t] = "idle" /\ ret'[t] = "false")]_vars

\* C8: a connect() attempt that loaded an empty required field never
\* attempts the SSH connection and ends with the cancelled result False.
C8_MissingCredsCancelled ==
    \A t \in Threads :
       (self[t] # 0 /\ att[t] # 0 /\ MissingCreds(self[t])) =>
          /\ pc[t] \notin AfterPasswordPcs
          /\ (pc[t] = "idle" /\ lastOp[t] = "connect") => ret[t] = "false"

\* C9: once the editor has saved credentials to the secret store, a
\* connect() attempt loads exactly the store's values into its connector.
C9_LoadsFromStore ==
    [][\A t \in Threads :
          (pc[t] = "s_env" /\ pc'[t] = "s_client" /\ keyring # NoCreds) =>
             \A k \in Keys : cCreds'[self[t]][k] = keyring[k]]_vars

\* C10: when the application has exited with an engine held, that Session is
\* disposed: its engine, forwarder, SSH transport and client are not live.
C10_ExitDisposesSession ==
    (exited /\ qmEngine # 0) => ~AttemptLive(qmEngine)

\* ------------------------------------------------- SSHForwardServer
\* The run thread, the caller of stop(), the clients that connect to the
\* local port and the handler threads, statement by statement.

FRun(label) == fRunPc' = label

\* lines 24-25: create the socket
RunSocket ==
    /\ fRunPc = "r_sock"
    /\ fSockRef' = TRUE /\ fSockSt' = "open"
    /\ FRun("r_bind")
    /\ UNCHANGED <<vars, winVars, qryVars, detailVars, fStopPc, fRunning, backlog, fCur, nextConn, connSt,
                   chanSt, relay, moved>>

\* a method called on self.sock raises when stop() has set the field to None
\* (AttributeError) or has closed the socket (OSError)
SockUsable == fSockRef /\ fSockSt # "closed"

\* line 26: bind; an exception here leaves run() through the finally clause
RunBind ==
    /\ fRunPc = "r_bind"
    /\ IF SockUsable
       THEN fSockSt' = "bound" /\ FRun("r_listen")
       ELSE fSockSt' = fSockSt /\ FRun("r_done")
    /\ UNCHANGED <<vars, winVars, qryVars, detailVars, fStopPc, fRunning, fSockRef, backlog, fCur, nextConn,
                   connSt, chanSt, relay, moved>>

\* line 26: another socket holds the port, bind raises
RunBindFails ==
    /\ fRunPc = "r_bind"
    /\ SockUsable
    /\ FRun("r_done")
    /\ UNCHANGED <<vars, winVars, qryVars, detailVars, fStopPc, fRunning, fSockRef, fSockSt, backlog, fCur,
                   nextConn, connSt, chanSt, relay, moved>>

\* line 27: listen
RunListen ==
    /\ fRunPc = "r_listen"
    /\ IF SockUsable
       THEN fSockSt' = "listening" /\ FRun("r_run")
       ELSE fSockSt' = fSockSt /\ FRun("r_done")
    /\ UNCHANGED <<vars, winVars, qryVars, detailVars, fStopPc, fRunning, fSockRef, backlog, fCur, nextConn,
                   connSt, chanSt, relay, moved>>

\* line 28: self.running = True
RunSetRunning ==
    /\ fRunPc = "r_run"
    /\ fRunning' = TRUE
    /\ FRun("r_while")
    /\ UNCHANGED <<vars, winVars, qryVars, detailVars, fStopPc, fSockRef, fSockSt, backlog, fCur, nextConn,
                   connSt, chanSt, relay, moved>>

\* line 29: while self.running
RunWhile ==
    /\ fRunPc = "r_while"
    /\ FRun(IF fRunning THEN "r_accept" ELSE "r_done")
    /\ UNCHANGED <<vars, winVars, qryVars, detailVars, fStopPc, fRunning, fSockRef, fSockSt, backlog, fCur,
                   nextConn, connSt, chanSt, relay, moved>>

\* lines 30-35: accept() returns a queued connection; on a closed socket it
\* raises OSError and the loop breaks; on self.sock = None the AttributeError
\* leaves run().  With nothing queued the thread stays parked.
RunAccept ==
    /\ fRunPc = "r_accept"
    /\ IF SockUsable
       THEN /\ backlog > 0
            /\ nextConn < MaxConns
            /\ backlog' = backlog - 1
            /\ nextConn' = nextConn + 1
            /\ fCur' = nextConn + 1
            /\ connSt' = [connSt EXCEPT ![nextConn + 1] = "open"]
            /\ FRun("r_chan")
       ELSE /\ FRun("r_done")
            /\ UNCHANGED <<backlog, nextConn, fCur, connSt>>
    /\ UNCHANGED <<vars, winVars, qryVars, detailVars, fStopPc, fRunning, fSockRef, fSockSt, chanSt, relay,
                   moved>>

\* lines 37-40: the channel opens
RunOpenChannel ==
    /\ fRunPc = "r_chan"
    /\ chanSt' = [chanSt EXCEPT ![fCur] = "open"]
    /\ FRun("r_spawn")
    /\ UNCHANGED <<vars, winVars, qryVars, detailVars, fStopPc, fRunning, fSockRef, fSockSt, backlog, fCur,
                   nextConn, connSt, relay, moved>>

\* where run() goes after the handler of lines 41-44 ("break" would be r_done)
AfterChannelFailureBreak == "r_done"

\* line 44: "continue", back to the loop test
AfterChannelFailure == "r_while"

\* lines 41-44: open_channel raises: close the accepted socket and continue
RunOpenChannelFails ==
    /\ fRunPc = "r_chan"
    /\ connSt' = [connSt EXCEPT ![fCur] = "closed"]
    /\ fCur' = 0
    /\ FRun(AfterChannelFailure)
    /\ UNCHANGED <<vars, winVars, qryVars, detailVars, fStopPc, fRunning, fSockRef, fSockSt, backlog,
                   nextConn, chanSt, relay, moved>>

\* lines 47-49: start the handler thread of the connection
RunSpawn ==
    /\ fRunPc = "r_spawn"
    /\ relay' = [relay EXCEPT ![fCur] = "relaying"]
    /\ fCur' = 0
    /\ FRun("r_while")
    /\ UNCHANGED <<vars, winVars, qryVars, detailVars, fStopPc, fRunning, fSockRef, fSockSt, backlog,
                   nextConn, connSt, chanSt, moved>>

\* a client (the engine's connection pool) connects to the local port; one
\* place is kept for the connection stop() makes
ClientConnect ==
    /\ fSockSt = "listening"
    /\ nextConn + backlog + 1 < MaxConns
    /\ backlog' = backlog + 1
    /\ UNCHANGED <<vars, winVars, qryVars, detailVars, fRunPc, fStopPc, fRunning, fSockRef, fSockSt, fCur,
                   nextConn, connSt, chanSt, relay, moved>>

\* lines 73-84: one chunk relayed in one direction
Relay(c) ==
    /\ relay[c] = "relaying"
    /\ connSt[c] = "open" /\ chanSt[c] = "open"
    /\ moved[c] < MaxBytes
    /\ moved' = [moved EXCEPT ![c] = moved[c] + 1]
    /\ UNCHANGED <<vars, winVars, qryVars, detailVars, fRunPc, fStopPc, fRunning, fSockRef, fSockSt,
                   backlog, fCur, nextConn, connSt, chanSt, relay>>

\* a handler that closes the sockets of every connection
HandlerClosesAll(c) == ConnIds

\* lines 85-87: the finally clause closes client_sock and chan of the
\* handler's own connection
HandlerCloses(c) == {c}

\* where run() is after a handler thread raised, were the exception to reach it
AfterHandlerFailureStops(at) == "r_done"

\* an exception in a handler thread ends that thread only; run() is where it was
AfterHandlerFailure(at) == at

HandlerExit(c, how) ==
    /\ relay[c] = "relaying"
    /\ relay' = [relay EXCEPT ![c] = how]
    /\ connSt' = [d \in ConnIds |->
                    IF d \in HandlerCloses(c) /\ connSt[d] = "open"
                    THEN "closed" ELSE connSt[d]]
    /\ chanSt' = [d \in ConnIds |->
                    IF d \in HandlerCloses(c) /\ chanSt[d] = "open"
                    THEN "closed" ELSE chanSt[d]]

\* lines 76-78, 81-83: recv returns no data (either end closed): break
HandlerEof(c) ==
    /\ HandlerExit(c, "ended")
    /\ UNCHANGED <<vars, winVars, qryVars, detailVars, fRunPc, fStopPc, fRunning, fSockRef, fSockSt,
                   backlog, fCur, nextConn, moved>>

\* select, recv or sendall raises: the finally clause runs and the exception
\* ends the handler thread
HandlerFails(c) ==
    /\ HandlerExit(c, "failed")
    /\ fRunPc' = AfterHandlerFailure(fRunPc)
    /\ UNCHANGED <<vars, winVars, qryVars, detailVars, fStopPc, fRunning, fSockRef, fSockSt, backlog, fCur,
                   nextConn, moved>>

\* line 55: stop() is called (by disconnect) and clears the flag
StopCall ==
    /\ fStopPc = "idle"
    /\ fRunning' = FALSE
    /\ fStopPc' = "st_test"
    /\ UNCHANGED <<vars, winVars, qryVars, detailVars, fRunPc, fSockRef, fSockSt, backlog, fCur, nextConn,
                   connSt, chanSt, relay, moved>>

\* line 56: if self.sock
StopTest ==
    /\ fStopPc = "st_test"
    /\ fStopPc' = IF fSockRef THEN "st_dummy" ELSE "done"
    /\ UNCHANGED <<vars, winVars, qryVars, detailVars, fRunPc, fRunning, fSockRef, fSockSt, backlog, fCur,
                   nextConn, connSt, chanSt, relay, moved>>

\* lines 57-63: connect to the local port to wake accept(); refused, and the
\* exception swallowed, when the socket does not listen
StopDummy ==
    /\ fStopPc = "st_dummy"
    /\ backlog' = IF fSockSt = "listening" THEN backlog + 1 ELSE backlog
    /\ fStopPc' = "st_close"
    /\ UNCHANGED <<vars, winVars, qryVars, detailVars, fRunPc, fRunning, fSockRef, fSockSt, fCur, nextConn,
                   connSt, chanSt, relay, moved>>

\* lines 64-68: close the listening socket; what is queued on it is dropped
StopClose ==
    /\ fStopPc = "st_close"
    /\ fSockSt' = "closed"
    /\ backlog' = 0
    /\ fStopPc' = "st_clear"
    /\ UNCHANGED <<vars, winVars, qryVars, detailVars, fRunPc, fRunning, fSockRef, fCur, nextConn, connSt,
                   chanSt, relay, moved>>

\* line 69: self.sock = None
StopClear ==
    /\ fStopPc = "st_clear"
    /\ fSockRef' = FALSE
    /\ fStopPc' = "done"
    /\ UNCHANGED <<vars, winVars, qryVars, detailVars, fRunPc, fRunning, fSockSt, backlog, fCur, nextConn,
                   connSt, chanSt, relay, moved>>

RunStep ==
    \/ RunSocket
    \/ RunBind
    \/ RunListen
    \/ RunSetRunning
    \/ RunWhile
    \/ RunAccept
    \/ RunOpenChannel
    \/ RunSpawn

StopStep ==
    \/ StopTest
    \/ StopDummy
    \/ StopClose
    \/ StopClear

\* the forwarder thread has been started (forwarder.start(), line 188 of
\* connect_over_ssh) and nothing of it has run yet
InitForwarder ==
    /\ CoreInit /\ dotenv = [k \in Keys |-> "a"]
    /\ fRunPc = "r_sock" /\ fStopPc = "idle" /\ ForwarderNew
    /\ WinIdle /\ QryIdle /\ DetailIdle

NextForwarder ==
    \/ RunStep
    \/ RunBindFails
    \/ RunOpenChannelFails
    \/ ClientConnect
    \/ \E c \in ConnIds : Relay(c)
    \/ \E c \in ConnIds : HandlerEof(c)
    \/ \E c \in ConnIds : HandlerFails(c)
    \/ StopCall
    \/ StopStep

SpecForwarder == InitForwarder /\ [][NextForwarder]_allVars

\* Both threads are scheduled: run() and stop() take their next step when
\* they have one.  Clients and relayed data come when they come.
SpecForwarderLive ==
    SpecForwarder /\ WF_allVars(RunStep) /\ WF_allVars(StopStep)

\* C11: when open_channel fails for an accepted connection, run() closes the
\* accepted socket, starts no handler for it and goes back to the loop test
\* with the flag and the listening socket as they were; from the loop test a
\* running forwarder goes on to accept again.
C11_ChannelFailureIsLocal ==
    [][/\ (fRunPc = "r_chan" /\ fRunPc' # "r_chan" /\ chanSt'[fCur] # "open")
          => /\ connSt'[fCur] = "closed"
             /\ relay'[fCur] = "none"
             /\ fRunPc' = "r_while"
             /\ UNCHANGED <<fRunning, fSockRef, fSockSt, backlog>>
       /\ (fRunPc = "r_while" /\ fRunning /\ fRunPc' # "r_while")
          => fRunPc' = "r_accept"]_allVars

\* a connection whose channel failed, and a later one being relayed
C11_Witness ==
    \E c, d \in ConnIds :
       /\ c < d
       /\ connSt[c] = "closed" /\ chanSt[c] = "none" /\ relay[c] = "none"
       /\ relay[d] = "relaying"

\* C12: an exception in the handler of one connection leaves run() at its
\* statement, the flag, the listening socket and what is queued on it as
\* they were, every other connection as it was, and the connector and the
\* QueryManager unchanged.
C12_RelayErrorIsLocal ==
    [][\A c \in ConnIds :
          (relay[c] = "relaying" /\ relay'[c] = "failed") =>
             /\ fRunPc' = fRunPc
             /\ UNCHANGED <<vars, fRunning, fSockRef, fSockSt, backlog, fCur,
                            nextConn>>
             /\ \A d \in ConnIds \ {c} :
                   /\ connSt'[d] = connSt[d]
                   /\ chanSt'[d] = chanSt[d]
                   /\ relay'[d] = relay[d]]_allVars

\* a handler has failed, the forwarder still listens and relays a
\* connection accepted later
C12_Witness ==
    \E c, d \in ConnIds :
       /\ c < d
       /\ relay[c] = "failed" /\ relay[d] = "relaying"
       /\ fRunPc = "r_accept" /\ fRunning /\ fSockSt = "listening"

\* C13: with two connections relayed at once, the end of one (closed by
\* either end, or failed) leaves the socket and the channel of the other
\* open and its handler relaying; a handler that relays has both its ends
\* open, so its next chunk can move.
C13_ConnectionsAreIndependent ==
    /\ [](\A b \in ConnIds :
             relay[b] = "relaying" => (connSt[b] = "open" /\ chanSt[b] = "open"))
    /\ [][\A a, b \in ConnIds :
             (a # b /\ relay[a] = "relaying" /\ relay[b] = "relaying"
                /\ relay'[a] \in {"ended", "failed"})
             => /\ connSt'[b] = "open" /\ chanSt'[b] = "open"
                /\ relay'[b] = "relaying"
                /\ moved'[b] = moved[b]]_allVars

\* connection a ended after relaying, connection b relayed on
C13_Witness ==
    \E a, b \in ConnIds :
       /\ a # b
       /\ relay[a] = "ended" /\ connSt[a] = "closed" /\ moved[a] >= 1
       /\ relay[b] = "relaying" /\ moved[b] = MaxBytes

\* C14: once stop() has been called, run() eventually ends and the socket
\* is not left listening, wherever run() was when stop() ran.
C14_StopEndsRun ==
    (fStopPc \notin {"off", "idle"}) ~> (fRunPc = "r_done" /\ fSockSt # "listening")

\* ------------------------------ MetricsApp._get_validated_date_range
Abs(dt) == dt.day * DayTicks + dt.tod

\* _parse_date_str (lines 164-167): parser.parse(text, default=today) takes
\* from the text the fields it gives and the others from datetime.today():
\* the year of a "short" text, and the time of day of every date text
Parse(text, now) == [day |-> text.day, tod |-> now % DayTicks]

\* strftime("%Y-%m-%d"): the date, the time of day dropped
Strftime(dt) == [form |-> "iso", day |-> dt.day]

\* datetime.today().strftime("%Y-%m-%d") (line 186)
TodayText(now) == Strftime([day |-> now \div DayTicks, tod |-> now % DayTicks])

\* "end < start"
EndBefore(start, end) == Abs(end) < Abs(start)

\* line 195: "end <= start"
EndNotAfter(start, end) == Abs(end) <= Abs(start)

\* timedelta.days of end - start, for end after start
DeltaDays(start, end) == (Abs(end) - Abs(start)) \div DayTicks

\* line 198: "(end - start).days > 7"
SpanTooLong(start, end) == DeltaDays(start, end) > MaxSpanDays

\* run_query lines 64-69: the day expanded to its first and last instant
ExpandStart(d) == d * DayTicks
ExpandEnd(d) == d * DayTicks + (DayTicks - 1)

WGoto(label) == wPc' = label

\* the worker calls _get_validated_date_range (gui.py line 1093)
ValidateCall ==
    /\ wPc = "idle"
    /\ wRuns < MaxRuns
    /\ wRuns' = wRuns + 1
    /\ WGoto("v_fill")
    /\ UNCHANGED <<vars, fwdVars, qryVars, detailVars, startEntry, endEntry, clock, wStart,
                   wEnd, wResult, qStartDay, qEndDay>>

\* lines 171-189: a blank side is copied from the other; both blank, both
\* become today
FillBlanks ==
    /\ wPc = "v_fill"
    /\ IF startEntry # Blank /\ endEntry = Blank
       THEN endEntry' = startEntry /\ startEntry' = startEntry
       ELSE IF endEntry # Blank /\ startEntry = Blank
       THEN startEntry' = endEntry /\ endEntry' = endEntry
       ELSE IF startEntry = Blank /\ endEntry = Blank
       THEN startEntry' = TodayText(clock) /\ endEntry' = TodayText(clock)
       ELSE UNCHANGED <<startEntry, endEntry>>
    /\ WGoto("v_start")
    /\ UNCHANGED <<vars, fwdVars, qryVars, detailVars, clock, wStart, wEnd, wResult,
                   qStartDay, qEndDay, wRuns>>

\* line 192
ParseStart ==
    /\ wPc = "v_start"
    /\ wStart' = Parse(startEntry, clock)
    /\ WGoto("v_end")
    /\ UNCHANGED <<vars, fwdVars, qryVars, detailVars, startEntry, endEntry, clock, wEnd,
                   wResult, qStartDay, qEndDay, wRuns>>

\* line 193
ParseEnd ==
    /\ wPc = "v_end"
    /\ wEnd' = Parse(endEntry, clock)
    /\ WGoto("v_check")
    /\ UNCHANGED <<vars, fwdVars, qryVars, detailVars, startEntry, endEntry, clock, wStart,
                   wResult, qStartDay, qEndDay, wRuns>>

\* lines 195-208: the two tests, then the entries are rewritten and the pair
\* returned; the worker passes the dates of the pair to run_query
\* (gui.py lines 1098-1104)
CheckWindow ==
    /\ wPc = "v_check"
    /\ IF EndNotAfter(wStart, wEnd)
       THEN /\ wResult' = "order"
            /\ UNCHANGED <<startEntry, endEntry, qStartDay, qEndDay>>
       ELSE IF SpanTooLong(wStart, wEnd)
       THEN /\ wResult' = "span"
            /\ UNCHANGED <<startEntry, endEntry, qStartDay, qEndDay>>
       ELSE /\ wResult' = "ok"
            /\ startEntry' = Strftime(wStart)
            /\ endEntry' = Strftime(wEnd)
            /\ qStartDay' = Strftime(wStart).day
            /\ qEndDay' = Strftime(wEnd).day
    /\ WGoto("idle")
    /\ UNCHANGED <<vars, fwdVars, qryVars, detailVars, clock, wStart, wEnd, wRuns>>

\* _normalize_entry (lines 210-221), bound to FocusOut of the two entries
NormalizeText(text, now) ==
    IF text = Blank THEN text ELSE Strftime(Parse(text, now))

NormalizeEntry(which) ==
    /\ wPc = "idle"
    /\ IF which = "start"
       THEN /\ startEntry' = NormalizeText(startEntry, clock)
            /\ startEntry' # startEntry
            /\ endEntry' = endEntry
       ELSE /\ endEntry' = NormalizeText(endEntry, clock)
            /\ endEntry' # endEntry
            /\ startEntry' = startEntry
    /\ UNCHANGED <<vars, fwdVars, qryVars, detailVars, clock, wPc, wStart, wEnd, wResult,
                   qStartDay, qEndDay, wRuns>>

\* time passes, here up to one tick past the midnight that follows the start
MaxClock == DayTicks + 1

Tick ==
    /\ wPc # "off"
    /\ clock < MaxClock
    /\ clock' = clock + 1
    /\ UNCHANGED <<vars, fwdVars, qryVars, detailVars, startEntry, endEntry, wPc, wStart,
                   wEnd, wResult, qStartDay, qEndDay, wRuns>>

\* any text in the two entries, the clock within two ticks of midnight
InitWindow ==
    /\ CoreInit /\ dotenv = [k \in Keys |-> "a"]
    /\ FwdIdle /\ QryIdle /\ DetailIdle
    /\ startEntry \in Texts
    /\ endEntry \in Texts
    /\ clock \in {DayTicks - 2, DayTicks - 1}
    /\ wPc = "idle"
    /\ WindowNew

NextWindow ==
    \/ ValidateCall
    \/ FillBlanks
    \/ ParseStart
    \/ ParseEnd
    \/ CheckWindow
    \/ \E which \in {"start", "end"} : NormalizeEntry(which)
    \/ Tick

SpecWindow == InitWindow /\ [][NextWindow]_allVars

\* C15: a validation whose parsed end is not after its parsed start, as is
\* the case whenever the end date lies before the start date, raises the
\* ValueError of the ordering test: the entries are not rewritten and no
\* window is passed on.
C15_EndNotAfterStartRaises ==
    [][(/\ wPc = "v_check" /\ wPc' = "idle"
        /\ (Abs(wEnd) <= Abs(wStart) \/ endEntry.day < startEntry.day))
       => /\ wResult' = "order"
          /\ UNCHANGED <<startEntry, endEntry, qStartDay, qEndDay>>]_allVars

\* a validation of an end date before the start date has raised
C15_Witness ==
    /\ wPc = "idle" /\ wResult = "order"
    /\ startEntry # Blank /\ endEntry.day < startEntry.day

\* C16: no window passed on to run_query has, once expanded to full days,
\* a span of more than 7 days.
C16_ExpandedSpanAtMostSevenDays ==
    (wPc = "idle" /\ wResult = "ok") =>
       ExpandEnd(qEndDay) - ExpandStart(qStartDay) <= MaxSpanDays * DayTicks

\* C17: a blank side is filled from the other and two blank sides with
\* today; a window of one day is accepted and passed on as that day, whose
\* expanded end lies after its expanded start.
C17_SingleDayAccepted ==
    [][/\ (wPc = "v_fill" /\ wPc' = "v_start") =>
             /\ (startEntry # Blank /\ endEntry = Blank)
                   => (startEntry' = startEntry /\ endEntry' = startEntry)
             /\ (startEntry = Blank /\ endEntry # Blank)
                   => (startEntry' = endEntry /\ endEntry' = endEntry)
             /\ (startEntry = Blank /\ endEntry = Blank)
                   => /\ startEntry' = endEntry'
                      /\ startEntry'.day = clock \div DayTicks
       /\ (wPc = "v_check" /\ wPc' = "idle" /\ startEntry.day = endEntry.day) =>
             /\ wResult' = "ok"
             /\ qStartDay' = startEntry.day /\ qEndDay' = endEntry.day
             /\ ExpandEnd(qEndDay') > ExpandStart(qStartDay')]_allVars

\* C18: validating again a window of at most 7 days that validation has
\* accepted and rewritten gives the same result: it is accepted, the entries
\* stay as they are and the same dates are passed on.
C18_NormalizeIdempotent ==
    [][(/\ wPc = "v_check" /\ wPc' = "idle"
        /\ wResult = "ok"
        /\ startEntry.day <= endEntry.day
        /\ endEntry.day <= startEntry.day + MaxSpanDays)
       => /\ wResult' = "ok"
          /\ UNCHANGED <<startEntry, endEntry, qStartDay, qEndDay>>]_allVars

\* ------------------------------------------- QueryManager.run_query
\* The reference zone is behind UTC by a whole number of seconds.
TzOffset == SubTicks

\* a conversion that leaves the local value as it is
ToUtcNaive(t) == t

\* lines 72-73: astimezone(pytz.UTC)
ToUtc(t) == t + TzOffset

\* lines 96-97, 143-144, 160-161: tz_localize("UTC").tz_convert(LA_TZ)
ToLa(t) == t - TzOffset

\* lines 72-73: strftime("%Y-%m-%d %H:%M:%S") drops the fraction of the second
FormatSeconds(t) == (t \div SubTicks) * SubTicks

\* updated_at holds whole seconds, as the text parameters bound to it do
RowTimes ==
    {t \in TzOffset..ToUtc(ExpandEnd(MaxQDay)) : t % SubTicks = 0}

SetMin(S) == CHOOSE x \in S : \A y \in S : x <= y
SetMax(S) == CHOOSE x \in S : \A y \in S : y <= x

\* the rows cp_device_metrics can hold
MetricRows == [updated_at : RowTimes, device_name : DeviceNames]

\* the filter kinds: a column of cp_device_metrics (device_name stands for
\* user_id too, both go through "WHERE {filter_type} = :filter_value"), or
\* the identifier kept in cp_device
FilterTypes == {"device_name", "esp_ble_id"}

\* the identifier taken for a device name
ResolveDirect(v) == {v}

\* SELECT DISTINCT device_name FROM cp_device WHERE esp_ble_id = :filter_value
\* (lines 81-83, 107-109, 138, 155, 168-172)
Resolve(v) == {n \in DeviceNames : cpDevice[n] = v}

\* the FROM and the filter condition of the statements of run_query: a JOIN
\* with the resolved names ON m.device_name = d.device_name (lines 80-83,
\* 106-110, 173-175), m.device_name IN the resolved names (lines 138, 155),
\* or the column compared with the value (lines 89, 118, 139, 156, 184)
FromMetrics(nested) ==
    IF filterType = "esp_ble_id"
    THEN IF nested
         THEN {m \in metrics : m.device_name \in Resolve(filterValue)}
         ELSE {m \in metrics :
                  \E d \in Resolve(filterValue) : m.device_name = d}
    ELSE {m \in metrics : m.device_name = filterValue}

Times(S) == {m.updated_at : m \in S}

\* lines 78-100: MIN and MAX of updated_at over the rows of the filter
HistoryRange ==
    LET rws == Times(FromMetrics(FALSE))
    IN  [earliest |-> IF rws = {} THEN {} ELSE {ToLa(SetMin(rws))},
         latest |-> IF rws = {} THEN {} ELSE {ToLa(SetMax(rws))}]

\* lines 103-124: EXISTS (... updated_at BETWEEN :start_date AND :end_date)
ProbeExists ==
    \E r \in Times(FromMetrics(FALSE)) : pStart <= r /\ r <= pEnd

\* lines 130-144: updated_at < :start_date ORDER BY updated_at DESC LIMIT 1
NearestBefore ==
    LET rws == Times(FromMetrics(TRUE))
    IN  IF {r \in rws : r < pStart} = {} THEN {}
        ELSE {ToLa(SetMax({r \in rws : r < pStart}))}

\* "ORDER BY updated_at DESC LIMIT 1" in the query after the window
NearestAfterLast ==
    LET rws == Times(FromMetrics(TRUE))
    IN  IF {r \in rws : r > pEnd} = {} THEN {}
        ELSE {ToLa(SetMax({r \in rws : r > pEnd}))}

\* lines 147-161: updated_at > :end_date ORDER BY updated_at ASC LIMIT 1
NearestAfter ==
    LET rws == Times(FromMetrics(TRUE))
    IN  IF {r \in rws : r > pEnd} = {} THEN {}
        ELSE {ToLa(SetMin({r \in rws : r > pEnd}))}

\* stands for the 60000 of "LIMIT 60000" (lines 178, 187)
RowLimit == 2

\* lines 166-188: WHERE ... BETWEEN :start_date AND :end_date
\* ORDER BY updated_at DESC LIMIT n: the results the statement can give, n
\* rows (all when there are fewer) none older than a row left out
FetchResults ==
    LET S == {m \in FromMetrics(FALSE) :
                 pStart <= m.updated_at /\ m.updated_at <= pEnd}
    IN  {F \in SUBSET S :
            /\ Cardinality(F) = IF Cardinality(S) < RowLimit
                                THEN Cardinality(S) ELSE RowLimit
            /\ \A a \in F, b \in S \ F : a.updated_at >= b.updated_at}

\* lines 269-275: the text NoDataInWindow is raised with
NoDataMessageOutside(earliest, latest) == "no data in requested window"

NoDataMessage(earliest, latest) ==
    IF earliest = {} \/ latest = {}
    THEN "no data exists at all"
    ELSE "no data in requested window"

QGoto(label) == rqPc' = label

\* what run_query leaves alone between its call and its end
QFrame == UNCHANGED <<vars, fwdVars, winVars, detailVars, tableVars, argVars, normVars>>

\* lines 58-61: a call with any filter and any window of whole days that
\* validation lets through; connect() finds the engine held and run_query
\* goes on
RunQueryCall ==
    /\ rqPc \in {"idle", "done"}
    /\ qmEngine # 0
    /\ \E ft \in FilterTypes, fv \in FilterValues, sd \in 0..MaxQDay :
          \E ed \in sd..MaxQDay :
             /\ filterType' = ft /\ filterValue' = fv
             /\ rqStartDay' = sd /\ rqEndDay' = ed
    /\ pStart' = 0 /\ pEnd' = 0
    /\ hasData' = FALSE
    /\ nBefore' = {} /\ nAfter' = {}
    /\ rqOut' = "none"
    /\ sig' = NoSignal
    /\ issued' = <<>>
    /\ fetched' = {}
    /\ QGoto("q_params")
    /\ UNCHANGED <<vars, fwdVars, winVars, detailVars, tableVars, tsRange, normVars>>

\* lines 63-74: the two days expanded, converted to UTC and formatted
MakeParams ==
    /\ rqPc = "q_params"
    /\ pStart' = FormatSeconds(ToUtc(ExpandStart(rqStartDay)))
    /\ pEnd' = FormatSeconds(ToUtc(ExpandEnd(rqEndDay)))
    /\ QGoto("q_range")
    /\ QFrame
    /\ UNCHANGED <<tsRange, hasData, nBefore, nAfter, rqOut, sig, issued,
                   fetched>>

\* lines 76-100
RangeQuery ==
    /\ rqPc = "q_range"
    /\ issued' = Append(issued, "range")
    /\ tsRange' = HistoryRange
    /\ QGoto("q_probe")
    /\ QFrame
    /\ UNCHANGED <<pStart, pEnd, hasData, nBefore, nAfter, rqOut, sig,
                   fetched>>

\* every answer taken for "no data"
AfterProbeNever(has) == "q_before"

\* line 126: if not has_data
AfterProbe(has) == IF has THEN "q_fetch" ELSE "q_before"

\* lines 102-126
ExistenceProbe ==
    /\ rqPc = "q_probe"
    /\ issued' = Append(issued, "check")
    /\ hasData' = ProbeExists
    /\ QGoto(AfterProbe(ProbeExists))
    /\ QFrame
    /\ UNCHANGED <<pStart, pEnd, tsRange, nBefore, nAfter, rqOut, sig,
                   fetched>>

\* lines 127-144
ProbeBefore ==
    /\ rqPc = "q_before"
    /\ issued' = Append(issued, "before")
    /\ nBefore' = NearestBefore
    /\ QGoto("q_after")
    /\ QFrame
    /\ UNCHANGED <<pStart, pEnd, tsRange, hasData, nAfter, rqOut, sig,
                   fetched>>

\* lines 146-161
ProbeAfter ==
    /\ rqPc = "q_after"
    /\ issued' = Append(issued, "after")
    /\ nAfter' = NearestAfter
    /\ QGoto("q_raise")
    /\ QFrame
    /\ UNCHANGED <<pStart, pEnd, tsRange, hasData, nBefore, rqOut, sig,
                   fetched>>

\* lines 163-164 and NoDataInWindow.__init__ (lines 269-287)
RaiseNoData ==
    /\ rqPc = "q_raise"
    /\ sig' = [earliest |-> tsRange.earliest, latest |-> tsRange.latest,
               before |-> nBefore, after |-> nAfter,
               msg |-> NoDataMessage(tsRange.earliest, tsRange.latest)]
    /\ rqOut' = "nodata"
    /\ QGoto("done")
    /\ QFrame
    /\ UNCHANGED <<pStart, pEnd, tsRange, hasData, nBefore, nAfter, issued,
                   fetched>>

\* lines 166-192: the fetch; run_query returns its rows normalized (lines
\* 194-243, Normalize below)
Fetch ==
    /\ rqPc = "q_fetch"
    /\ issued' = Append(issued, "fetch")
    /\ fetched' \in FetchResults
    /\ rqOut' = "rows"
    /\ QGoto("done")
    /\ QFrame
    /\ UNCHANGED <<pStart, pEnd, tsRange, hasData, nBefore, nAfter, sig>>

\* the statement run_query executes at each of these places
StatementAt ==
    [q_range |-> "range", q_probe |-> "check", q_before |-> "before",
     q_after |-> "after", q_fetch |-> "fetch"]

\* lines 93, 124, 141, 158, 191: conn.execute raises (the tunnel is gone, the
\* server's execution time is exceeded) and run_query ends with the exception
ExecuteFails ==
    /\ rqPc \in DOMAIN StatementAt
    /\ issued' = Append(issued, StatementAt[rqPc])
    /\ rqOut' = "failed"
    /\ QGoto("done")
    /\ QFrame
    /\ UNCHANGED <<pStart, pEnd, tsRange, hasData, nBefore, nAfter, sig,
                   fetched>>

\* connected, no call made yet
QueryReady ==
    /\ CoreConnected /\ FwdIdle /\ WinIdle /\ DetailIdle
    /\ filterType = "device_name" /\ filterValue = 0
    /\ rqStartDay = 0 /\ rqEndDay = 0
    /\ rqPc = "idle"
    /\ QueryNew
    /\ NormIdle

\* any few rows of one device, which is the only one with its identifier
InitQuery ==
    /\ QueryReady
    /\ metrics \in {R \in SUBSET MetricRows :
                       /\ Cardinality(R) <= MaxRows
                       /\ \A m \in R : m.device_name = 1}
    /\ cpDevice = [n \in DeviceNames |-> n]

NextQuery ==
    \/ RunQueryCall
    \/ MakeParams
    \/ RangeQuery
    \/ ExistenceProbe
    \/ ProbeBefore
    \/ ProbeAfter
    \/ RaiseNoData
    \/ Fetch

SpecQuery == InitQuery /\ [][NextQuery]_allVars

\* run_query with statements that can fail
NextQueryFaults ==
    \/ NextQuery
    \/ ExecuteFails

SpecQueryFaults == InitQuery /\ [][NextQueryFaults]_allVars

\* a row or two of any devices, each at the start of a day, and each device
\* with any identifier
InitFilter ==
    /\ QueryReady
    /\ metrics \in {R \in SUBSET MetricRows :
                       /\ Cardinality(R) <= MaxFilterRows
                       /\ \A m \in R : \E d \in 0..MaxQDay :
                             m.updated_at = ToUtc(ExpandStart(d))}
    /\ cpDevice \in [DeviceNames -> FilterValues]

SpecFilter == InitFilter /\ [][NextQuery]_allVars

\* ------------------------------- run_query: normalization (lines 194-243)
\* the headers the fetch result can come with
Headers == {"updated_at", "Timestamp", "TS", "Fan_Tach_RPM", "Device_Temp_C"}

\* a cell: None/NaN/NaT, a text, or the number num/den (a timestamp is its
\* count of ticks)
Null == [kind |-> "null", num |-> 0, den |-> 1]
Text == [kind |-> "text", num |-> 0, den |-> 1]
Num(n, d) == [kind |-> "num", num |-> n, den |-> d]

\* what a column of the fetch result can hold: a time or a text that is no
\* date in the timestamp columns (two times where the first alias is, one
\* elsewhere), None or a reading in the others
CellsOf(h) ==
    CASE h = "Fan_Tach_RPM" -> {Null, Num(1234, 1)}
      [] h = "Device_Temp_C" -> {Null, Num(0, 1), Num(3, 10000)}
      [] h = "Timestamp" -> {Text, Num(TzOffset, 1), Num(TzOffset + SubTicks, 1)}
      [] h = "TS" -> {Text, Num(TzOffset + SubTicks, 1)}
      [] OTHER -> {Text, Num(TzOffset, 1)}

\* line 192: pd.DataFrame(result.fetchall(), columns=result.keys()); every
\* row has its index label
Frames(maxCols, maxRows) ==
    UNION {[cols : {H},
            body : UNION {{[i \in 1..n |-> [idx |-> i, cells |-> b[i]]] :
                             b \in [1..n ->
                                      {r \in [H -> UNION {CellsOf(h) : h \in H}] :
                                          \A h \in H : r[h] \in CellsOf(h)}]} :
                          n \in 0..maxRows}] :
           H \in {G \in SUBSET Headers : G # {} /\ Cardinality(G) <= maxCols}}

\* line 199: c.lower()
Lower(h) ==
    CASE h = "Timestamp" -> "timestamp"
      [] h = "TS" -> "ts"
      [] h = "Fan_Tach_RPM" -> "fan_tach_rpm"
      [] h = "Device_Temp_C" -> "device_temp_c"
      [] OTHER -> h

\* the frame with column c named as[c]
Renamed(f, as) ==
    LET new == {as[c] : c \in f.cols}
    IN  [cols |-> new,
         body |-> [i \in DOMAIN f.body |->
                     [idx |-> f.body[i].idx,
                      cells |-> [n \in new |->
                                   f.body[i].cells[CHOOSE c \in f.cols :
                                                      as[c] = n]]]]]

\* the frame with its columns cut down to keep
Restricted(f, keep) ==
    [cols |-> keep,
     body |-> [i \in DOMAIN f.body |->
                 [idx |-> f.body[i].idx,
                  cells |-> [c \in keep |-> f.body[i].cells[c]]]]]

\* the frame with op applied to every cell of column col
Mapped(f, col, op(_)) ==
    [cols |-> f.cols,
     body |-> [i \in DOMAIN f.body |->
                 [idx |-> f.body[i].idx,
                  cells |-> [c \in f.cols |->
                               IF c = col THEN op(f.body[i].cells[c])
                               ELSE f.body[i].cells[c]]]]]

\* lines 202-209: the keys of alias_map in their order
AliasOrder ==
    <<"updatedat", "update_at", "timestamp", "ts", "time", "created_at">>

\* the alias that comes last in alias_map
LastAlias(hits) == SetMax(hits)

\* lines 210-213: the loop stops at the first key found among the columns
FirstAlias(hits) == SetMin(hits)

\* lines 201-213
RenameAlias(f) ==
    LET hits == {i \in DOMAIN AliasOrder : AliasOrder[i] \in f.cols}
    IN  IF "updated_at" \in f.cols \/ hits = {} THEN f
        ELSE Renamed(f, [c \in f.cols |->
                           IF c = AliasOrder[FirstAlias(hits)]
                           THEN "updated_at" ELSE c])

\* line 219: pd.to_datetime(errors="coerce", utc=True): NaT for what is no
\* date
ToDatetime(cell) == IF cell.kind = "num" THEN cell ELSE Null

\* line 229: tz_convert(LA_TZ).tz_localize(None)
ToLaCell(cell) == Num(ToLa(cell.num), cell.den)

\* the rows are left in the order they came in
SortedAsFetched(b) == {b}

\* line 225: sort_values("updated_at"); rows with equal timestamps can come
\* out in either order
SortValues(b) ==
    {[i \in DOMAIN b |-> b[p[i]]] :
        p \in {q \in [DOMAIN b -> DOMAIN b] :
                  /\ \A i, j \in DOMAIN b : q[i] = q[j] => i = j
                  /\ \A i, j \in DOMAIN b :
                        i < j => b[q[i]].cells["updated_at"].num
                                    <= b[q[j]].cells["updated_at"].num}}

\* the value divided by 100 a second time
Div100Twice(cell) ==
    IF cell.kind = "num" THEN Num(cell.num, cell.den * 100 * 100) ELSE cell

\* line 233: df["fan_tach_rpm"] / 100.0; NaN stays NaN
Div100(cell) ==
    IF cell.kind = "num" THEN Num(cell.num, cell.den * 100) ELSE cell

\* line 235: c.endswith("_temp_c"), and line 238: replace("_temp_c", "_temp_f")
EndsWithTempC(c) == c = "device_temp_c"
TempF(c) == IF c = "device_temp_c" THEN "device_temp_f" ELSE c

\* round(3): the nearest multiple of 1/1000, the even one of two equally near
Round3(cell) ==
    LET n == cell.num * 1000
        fl == n \div cell.den
        rem == n % cell.den
    IN  Num(IF 2 * rem < cell.den THEN fl
            ELSE IF 2 * rem > cell.den THEN fl + 1
            ELSE IF fl % 2 = 0 THEN fl ELSE fl + 1, 1000)

\* line 239: df[col] * 9.0 / 5.0 + 32.0, rounded; NaN stays NaN
ToFahrenheit(cell) ==
    IF cell.kind = "num"
    THEN Round3(Num(9 * cell.num + 160 * cell.den, 5 * cell.den))
    ELSE cell

\* QueryManager made with units="c"
UnitsCelsius == "c"

\* line 18: self.units; MetricsApp makes its QueryManager without units
\* (gui.py line 58), which leaves the default "f" of line 10
Units == "f"

NGoto(label) == nPc' = label

NFrame == UNCHANGED <<vars, fwdVars, winVars, detailVars, tableVars, argVars, rqPc, pStart,
                      pEnd, tsRange, hasData, nBefore, nAfter, rqOut, sig,
                      issued, fetched, df>>

NReturn(f, how) == cur' = f /\ nOut' = how /\ NGoto("done")

\* lines 195-197
NormEmpty ==
    /\ nPc = "n_empty"
    /\ IF cur.body = <<>>
       THEN NReturn(EmptyFrame, "empty")
       ELSE NGoto("n_lower") /\ UNCHANGED <<cur, nOut>>
    /\ NFrame

\* line 199
NormLower ==
    /\ nPc = "n_lower"
    /\ cur' = Renamed(cur, [c \in cur.cols |-> Lower(c)])
    /\ NGoto("n_alias")
    /\ NFrame /\ UNCHANGED nOut

\* lines 201-213
NormAlias ==
    /\ nPc = "n_alias"
    /\ cur' = RenameAlias(cur)
    /\ NGoto("n_check")
    /\ NFrame /\ UNCHANGED nOut

\* lines 215-217: the columns are logged and an empty frame is returned
NormCheck ==
    /\ nPc = "n_check"
    /\ IF "updated_at" \notin cur.cols
       THEN NReturn(EmptyFrame, "empty")
       ELSE NGoto("n_parse") /\ UNCHANGED <<cur, nOut>>
    /\ NFrame

\* lines 219-223
NormParse ==
    /\ nPc = "n_parse"
    /\ LET parsed == Mapped(cur, "updated_at", ToDatetime)
           kept == [cols |-> parsed.cols,
                    body |-> SelectSeq(parsed.body,
                                LAMBDA r : r.cells["updated_at"] # Null)]
       IN  IF kept.body = <<>>
           THEN NReturn(EmptyFrame, "empty")
           ELSE cur' = kept /\ NGoto("n_sort") /\ UNCHANGED nOut
    /\ NFrame

\* line 225
NormSort ==
    /\ nPc = "n_sort"
    /\ \E b \in SortValues(cur.body) : cur' = [cur EXCEPT !.body = b]
    /\ NGoto("n_dropcols")
    /\ NFrame /\ UNCHANGED nOut

\* line 226: dropna(axis=1, how="all")
NormDropCols ==
    /\ nPc = "n_dropcols"
    /\ cur' = Restricted(cur, {c \in cur.cols :
                                  \E i \in DOMAIN cur.body :
                                     cur.body[i].cells[c] # Null})
    /\ NGoto("n_tz")
    /\ NFrame /\ UNCHANGED nOut

\* line 229
NormTz ==
    /\ nPc = "n_tz"
    /\ cur' = Mapped(cur, "updated_at", ToLaCell)
    /\ NGoto("n_tach")
    /\ NFrame /\ UNCHANGED nOut

\* lines 231-233
NormTach ==
    /\ nPc = "n_tach"
    /\ cur' = IF "fan_tach_rpm" \in cur.cols
              THEN Mapped(cur, "fan_tach_rpm", Div100) ELSE cur
    /\ NGoto("n_temp")
    /\ NFrame /\ UNCHANGED nOut

\* lines 235-243
NormTemp ==
    /\ nPc = "n_temp"
    /\ LET temp_cols == {c \in cur.cols : EndsWithTempC(c)}
           converted ==
              [cols |-> {TempF(c) : c \in cur.cols},
               body |-> [i \in DOMAIN cur.body |->
                           [idx |-> cur.body[i].idx,
                            cells |-> [n \in {TempF(c) : c \in cur.cols} |->
                               IF \E c \in temp_cols : TempF(c) = n
                               THEN ToFahrenheit(cur.body[i].cells[
                                       CHOOSE c \in temp_cols : TempF(c) = n])
                               ELSE cur.body[i].cells[n]]]]]
       IN  NReturn(IF Units = "f" THEN converted ELSE cur, "frame")
    /\ NFrame

\* the fetch has returned any small frame
InitNormalize ==
    /\ CoreConnected /\ FwdIdle /\ WinIdle /\ DetailIdle
    /\ rqPc = "off" /\ metrics = {}
    /\ cpDevice = [n \in DeviceNames |-> n]
    /\ filterType = "device_name" /\ filterValue = 0
    /\ rqStartDay = 0 /\ rqEndDay = 0
    /\ QueryNew
    /\ df \in Frames(MaxCols, MaxDfRows)
    /\ cur = df
    /\ nPc = "n_empty"
    /\ nOut = "none"

NextNormalize ==
    \/ NormEmpty
    \/ NormLower
    \/ NormAlias
    \/ NormCheck
    \/ NormParse
    \/ NormSort
    \/ NormDropCols
    \/ NormTz
    \/ NormTach
    \/ NormTemp

SpecNormalize == InitNormalize /\ [][NextNormalize]_allVars

\* the metrics rows of the filter: those with the value in the filter's
\* column, or those of the devices cp_device gives the identifier
FilterRows ==
    {m \in metrics : IF filterType = "esp_ble_id"
                     THEN cpDevice[m.device_name] = filterValue
                     ELSE m.device_name = filterValue}
rows == Times(FilterRows)

\* the rows of the filter in the reference zone
LaRows == {ToLa(r) : r \in rows}
RowsBeforeWindow == {t \in LaRows : t < ExpandStart(rqStartDay)}
RowsAfterWindow == {t \in LaRows : t > ExpandEnd(rqEndDay)}

C20_RowsOnlyBeforeWindow ==
    (rqPc = "done" /\ rows # {} /\ RowsBeforeWindow = LaRows) =>
       /\ rqOut = "nodata"
       /\ sig.latest # {}
       /\ \A l \in sig.latest : l < ExpandStart(rqStartDay)
       /\ sig.after = {}

\* run_query has ended for a filter whose rows all lie before the window
C20_Witness ==
    /\ rqPc = "done" /\ rqOut = "nodata"
    /\ rows # {} /\ RowsBeforeWindow = LaRows
    /\ \E r \in rows : r >= ExpandStart(rqStartDay)

\* C21: for a filter with no rows at all, run_query ends by raising
\* NoDataInWindow with earliest and latest both absent and the "no data exists
\* at all" text; raised for a filter that has rows, the exception has another
\* text.
C21_NoHistoryAtAll ==
    /\ (rqPc = "done" /\ rows = {}) =>
          /\ rqOut = "nodata"
          /\ sig.earliest = {} /\ sig.latest = {}
          /\ sig.msg = "no data exists at all"
    /\ (rqPc = "done" /\ rqOut = "nodata" /\ rows # {}) =>
          sig.msg # "no data exists at all"

\* NoDataInWindow raised for a filter no row of the table has, in a table
\* with rows
C21_Witness ==
    /\ rqPc = "done" /\ rqOut = "nodata"
    /\ rows = {} /\ metrics # {}

\* the earliest and latest rows of the filter of the last call, in the
\* reference zone
RangeOfFilter ==
    [earliest |-> IF LaRows = {} THEN {} ELSE {SetMin(LaRows)},
     latest |-> IF LaRows = {} THEN {} ELSE {SetMax(LaRows)}]

\* C22: once a call of run_query has ended, with rows, with NoDataInWindow
\* or with a failure, get_timestamp_range() gives the earliest and latest
\* timestamps of the filter of that call, or both absent: never those of the
\* filter of an earlier call.
C22_RangeOfLastFilter ==
    rqPc = "done" => tsRange \in {RangeOfFilter, NoRange}

\* the rows of the filter inside the window of the call
RowsInWindow ==
    {m \in FilterRows : /\ ExpandStart(rqStartDay) <= ToLa(m.updated_at)
                        /\ ToLa(m.updated_at) <= ExpandEnd(rqEndDay)}

\* C23: the rows a call of run_query fetched are rows of the filter inside
\* the window, at most RowLimit of them, and when more rows match than the
\* limit they are the first ones in ascending order of updated_at: no row
\* left out is older than a row kept.
C23_FetchKeepsFirstAscending ==
    (rqPc = "done" /\ rqOut = "rows") =>
       /\ fetched \subseteq RowsInWindow
       /\ Cardinality(fetched) <= RowLimit
       /\ \A a \in fetched, b \in RowsInWindow \ fetched :
             a.updated_at <= b.updated_at

\* the metrics rows of the devices that cp_device gives an identifier
OwnedRows(v) == {m \in metrics : cpDevice[m.device_name] = v}

\* C24: in a call of run_query with filter_type esp_ble_id, every statement
\* selects the metrics rows of the devices cp_device lists under the
\* identifier: timestamp_range is the first and last of those rows, the
\* existence probe tells whether one of them is inside the window, before and
\* after are the nearest of them outside it, and the rows fetched are rows of
\* them inside the window.
C24_SelectsByResolvedDevices ==
    LET own == Times(OwnedRows(filterValue))
        inside == {m \in OwnedRows(filterValue) :
                      pStart <= m.updated_at /\ m.updated_at <= pEnd}
        before == {t \in own : t < pStart}
        after == {t \in own : t > pEnd}
    IN  (rqPc = "done" /\ filterType = "esp_ble_id") =>
           /\ tsRange.earliest = (IF own = {} THEN {} ELSE {ToLa(SetMin(own))})
           /\ tsRange.latest = (IF own = {} THEN {} ELSE {ToLa(SetMax(own))})
           /\ hasData <=> inside # {}
           /\ rqOut = "nodata" =>
                 /\ sig.before = (IF before = {} THEN {}
                                  ELSE {ToLa(SetMax(before))})
                 /\ sig.after = (IF after = {} THEN {}
                                 ELSE {ToLa(SetMin(after))})
           /\ rqOut = "rows" =>
                 /\ fetched \subseteq inside
                 /\ fetched # {}

\* a call by identifier has ended in a table where the device listed under
\* the identifier has another name than the identifier, and a row
C24_Witness ==
    /\ rqPc = "done" /\ filterType = "esp_ble_id"
    /\ \E m \in OwnedRows(filterValue) : m.device_name # filterValue
    /\ \E m \in metrics : m.device_name = filterValue

\* the places of a statement among those the call has executed
IssuedAt(k) == {i \in 1..Len(issued) : issued[i] = k}

\* C29: a call of run_query executes the existence probe once, never twice,
\* and before the fetch; it executes the fetch only after the probe answered
\* true, and the nearest-before and nearest-after probes only after it
\* answered false.
C29_ProbeOnceThenFetchOrNearest ==
    /\ Cardinality(IssuedAt("check")) <= 1
    /\ rqPc = "done" => Cardinality(IssuedAt("check")) = 1
    /\ \A i \in IssuedAt("fetch") :
          hasData /\ \E j \in IssuedAt("check") : j < i
    /\ \A i \in IssuedAt("before") \cup IssuedAt("after") :
          ~hasData /\ \E j \in IssuedAt("check") : j < i

\* a call that fetched has ended, in a table that has rows outside its window
C29_Witness ==
    /\ rqPc = "done" /\ rqOut = "rows"
    /\ issued = <<"range", "check", "fetch">>
    /\ Cardinality(RowsInWindow) < Cardinality(metrics)

\* the header of the result whose lower-cased name is c
SourceOf(c) == CHOOSE h \in df.cols : Lower(h) = c
LoweredCols == {Lower(h) : h \in df.cols}

\* the column of the result the timestamps are taken from: updated_at, or the
\* first alias of the list that is there; none when there is neither
TimestampSource ==
    IF "updated_at" \in LoweredCols THEN {"updated_at"}
    ELSE LET hits == {i \in DOMAIN AliasOrder : AliasOrder[i] \in LoweredCols}
         IN  IF hits = {} THEN {}
             ELSE {AliasOrder[CHOOSE i \in hits : \A j \in hits : i <= j]}

\* the index labels of the rows whose timestamp is a date
ParsedRows ==
    {i \in DOMAIN df.body :
        \E c \in TimestampSource : df.body[i].cells[SourceOf(c)].kind = "num"}

\* C25: normalizing a result that has rows and, lower-cased, neither the
\* column updated_at nor one of its aliases ends with the error
\* RequiredColumnMissing, not with a returned frame.
C25_MissingTimestampRaises ==
    (nPc = "done" /\ df.body # <<>> /\ TimestampSource = {}) =>
       nOut = "RequiredColumnMissing"

C27_TachDividedOnce ==
    (nPc = "done" /\ nOut = "frame" /\ "fan_tach_rpm" \in cur.cols) =>
       \A k \in DOMAIN cur.body :
          LET raw == df.body[cur.body[k].idx].cells[SourceOf("fan_tach_rpm")]
              out == cur.body[k].cells["fan_tach_rpm"]
          IN  IF raw.kind = "num"
              THEN /\ out.kind = "num"
                   /\ out.num * raw.den * 100 = raw.num * out.den
              ELSE out = Null

\* a frame returned with a tachometer value in one row and none in another
C27_Witness ==
    /\ nPc = "done" /\ nOut = "frame" /\ "fan_tach_rpm" \in cur.cols
    /\ \E k \in DOMAIN cur.body :
          cur.body[k].cells["fan_tach_rpm"] = Num(1234, 100)
    /\ \E k \in DOMAIN cur.body : cur.body[k].cells["fan_tach_rpm"] = Null

\* C30: normalizing a result that has a timestamp column gives the rows of
\* the result whose timestamp is a date, each once, in ascending order of
\* timestamp; the timestamps are those of updated_at, or of the first alias
\* in the list when the result has no updated_at, in the reference zone under
\* the name updated_at; the other columns are the lower-cased columns of the
\* result that have a value in one of those rows, Celsius columns under their
\* Fahrenheit name.
C30_NormalizedFrame ==
    (nPc = "done" /\ TimestampSource # {}) =>
       /\ {cur.body[k].idx : k \in DOMAIN cur.body} = ParsedRows
       /\ Len(cur.body) = Cardinality(ParsedRows)
       /\ ParsedRows # {} =>
             /\ nOut = "frame"
             /\ "updated_at" \in cur.cols
             /\ \A k \in DOMAIN cur.body : \A c \in TimestampSource :
                   cur.body[k].cells["updated_at"] =
                      Num(ToLa(df.body[cur.body[k].idx].cells[SourceOf(c)].num),
                          1)
             /\ \A j, k \in DOMAIN cur.body :
                   j < k => cur.body[j].cells["updated_at"].num
                               <= cur.body[k].cells["updated_at"].num
             /\ \A c \in LoweredCols \ TimestampSource :
                   TempF(c) \in cur.cols <=>
                      \E i \in ParsedRows : df.body[i].cells[SourceOf(c)] # Null
             /\ cur.cols \subseteq
                   {"updated_at"} \cup
                   {TempF(c) : c \in LoweredCols \ TimestampSource}

\* a frame returned for a result with two aliases and no updated_at whose
\* two rows came newest first
C30_Witness ==
    /\ nPc = "done" /\ nOut = "frame"
    /\ LoweredCols = {"timestamp", "ts"}
    /\ Len(cur.body) = 2
    /\ cur.body[1].idx > cur.body[2].idx
    /\ cur.body[1].cells["updated_at"] # cur.body[2].cells["updated_at"]

\* the statements of a connect attempt in the order of the code:
\* QueryManager.connect lines 47-48, connect_over_ssh lines 158-220,
\* QueryManager.connect lines 49-53
ConnectOrder ==
    <<"c_new", "c_call", "s_env", "s_client", "s_pw", "s_connect",
      "s_transport", "s_fwd", "s_engine", "s_health", "s_ret", "c_store">>
ConnectPlace(p) == CHOOSE i \in DOMAIN ConnectOrder : ConnectOrder[i] = p
ConnectPcs == {ConnectOrder[i] : i \in DOMAIN ConnectOrder}

\* C28: a connect attempt starts only without an engine held (Disconnected)
\* and goes through its statements one by one, none skipped: reading the
\* credentials (Connecting), the SSH login that leaves the client open
\* (Authenticating), then the forwarder started on the transport and only
\* then the engine built (ForwardingUp); it goes past the health check only
\* when the round trip went through a listening forwarder and an open
\* transport, and it ends with True (Connected) only from its last statement,
\* keeping the engine connect_over_ssh returned.  A teardown (Disconnecting)
\* starts at its first test and only from rest, never inside an attempt.
C28_ConnectInOrder ==
    [][\A t \in Threads :
          LET p == pc[t]
              q == pc'[t]
              c == self[t]
          IN  /\ (q \in ConnectPcs /\ q # p) =>
                    IF q = "c_new" THEN p = "idle" /\ qmEngine = 0
                    ELSE /\ p \in ConnectPcs
                         /\ ConnectPlace(q) = ConnectPlace(p) + 1
              /\ (p = "s_connect" /\ q = "s_transport") =>
                    /\ cClient[c] # 0
                    /\ clientSt'[cClient[c]] = "open"
              /\ (p = "s_fwd" /\ q = "s_engine") =>
                    /\ cTransport[c] # 0 /\ cEngine[c] = 0
                    /\ cForwarder'[c] # 0
                    /\ fwdSt'[cForwarder'[c]] = "starting"
              /\ (p = "s_engine" /\ q = "s_health") =>
                    cForwarder[c] # 0 /\ cEngine'[c] # 0
              /\ (p = "s_health" /\ q = "s_ret") =>
                    /\ cEngine[c] # 0
                    /\ cForwarder[c] # 0 /\ cTransport[c] # 0
                    /\ fwdSt[cForwarder[c]] = "listening"
                    /\ transportLive[cTransport[c]]
              /\ (p \in ConnectPcs /\ q = "idle" /\ ret'[t] = "true") =>
                    /\ p = "c_store"
                    /\ retv[t] # 0 /\ qmEngine' = retv[t]
              /\ (q \in DisconnectPcs /\ p \notin DisconnectPcs) =>
                    p \in {"idle", "cl_start"} /\ q = "d_eng"]_vars

\* a connect() that made an attempt has returned True
C28_Witness ==
    \E t \in Threads :
       /\ pc[t] = "idle" /\ lastOp[t] = "connect" /\ ret[t] = "true"
       /\ att[t] # 0 /\ qmEngine = att[t]

\* ------------------------------------------ SSHForwardServer.handler
\* The handler thread of one connection, statement by statement, with the
\* client behind client_sock and the server behind the channel.

\* the connection whose handler is followed statement by statement
Detailed == 1

\* the end a direction reads from
SrcOf(d) == IF d = "up" THEN "sock" ELSE "chan"

\* the direction a receive or send statement of the handler works in
DirAt(label) == IF label \in {"c_recv", "c_send"} THEN "up" ELSE "down"

\* select (line 74) reports an end when bytes wait on it or its peer has
\* closed
Readable ==
    {e \in Ends : \E d \in Dirs : SrcOf(d) = e /\ (inq[d] # <<>> \/ e \in peerEof)}

\* a recv that hands out the last n bytes that wait
ChunkFromEnd(buf, n) == SubSeq(buf, Len(buf) - n + 1, Len(buf))

\* recv (lines 76, 81) hands out the first n bytes that wait
Chunk(buf, n) == SubSeq(buf, 1, n)

\* and leaves the others waiting
Rest(buf, n) == SubSeq(buf, n + 1, Len(buf))

\* an empty read that is ignored: back to select
AfterEofContinues == "select"

\* lines 77-78 and 82-83: "if not data: break" leads to the finally clause
AfterEof == "fin_sock"

\* the statement after a sendall that has returned: line 80 after line 79,
\* line 74 after line 84
AfterSend(label) == IF label = "c_send" THEN "ch_test" ELSE "select"

\* everything a step of the detailed handler or of its peers leaves alone
RFrame ==
    UNCHANGED <<vars, winVars, qryVars, uiVars, fRunPc, fStopPc, fRunning,
                fSockRef, fSockSt, backlog, fCur, nextConn, moved>>

\* line 74: select blocks until an end is readable
HSelect ==
    /\ hPc = "select"
    /\ Readable # {}
    /\ hR' = Readable
    /\ hPc' = "c_test"
    /\ RFrame
    /\ UNCHANGED <<connSt, chanSt, relay, hData, hExc, sent, inq, outq,
                   peerEof, stalled>>

\* lines 75 and 80: "if client_sock in r", "if chan in r"
HTest ==
    /\ hPc \in {"c_test", "ch_test"}
    /\ hPc' = IF hPc = "c_test"
              THEN (IF "sock" \in hR THEN "c_recv" ELSE "ch_test")
              ELSE (IF "chan" \in hR THEN "ch_recv" ELSE "select")
    /\ RFrame
    /\ UNCHANGED <<connSt, chanSt, relay, hR, hData, hExc, sent, inq, outq,
                   peerEof, stalled>>

\* lines 76-78 and 81-83: recv returns some of the bytes that wait, at most
\* RecvMax of them (the 1024 of the code), or b"" at end of file
HRecv ==
    /\ hPc \in {"c_recv", "ch_recv"}
    /\ LET d == DirAt(hPc) IN
       IF inq[d] = <<>>
       THEN /\ SrcOf(d) \in peerEof
            /\ hData' = <<>>
            /\ hPc' = AfterEof
            /\ UNCHANGED inq
       ELSE \E n \in 1..RecvMax :
               /\ n <= Len(inq[d])
               /\ hData' = Chunk(inq[d], n)
               /\ inq' = [inq EXCEPT ![d] = Rest(inq[d], n)]
               /\ hPc' = IF hPc = "c_recv" THEN "c_send" ELSE "ch_send"
    /\ RFrame
    /\ UNCHANGED <<connSt, chanSt, relay, hR, hExc, sent, outq, peerEof,
                   stalled>>

\* lines 79 and 84: sendall writes data byte after byte and returns when the
\* last is written; it waits while the destination accepts nothing
HSend ==
    /\ hPc \in {"c_send", "ch_send"}
    /\ LET d == DirAt(hPc) IN
       /\ d \notin stalled
       /\ outq' = [outq EXCEPT ![d] = Append(outq[d], Head(hData))]
       /\ hData' = Tail(hData)
       /\ hPc' = IF Tail(hData) = <<>> THEN AfterSend(hPc) ELSE hPc
    /\ RFrame
    /\ UNCHANGED <<connSt, chanSt, relay, hR, hExc, sent, inq, peerEof,
                   stalled>>

\* select, recv or sendall raises (a reset connection, a closed channel):
\* the exception leaves the loop through the finally clause
HRaise ==
    /\ hPc \in {"select", "c_recv", "c_send", "ch_recv", "ch_send"}
    /\ hExc' = TRUE
    /\ hPc' = "fin_sock"
    /\ RFrame
    /\ UNCHANGED <<connSt, chanSt, relay, hR, hData, sent, inq, outq,
                   peerEof, stalled>>

\* line 86: client_sock.close()
HFinSock ==
    /\ hPc = "fin_sock"
    /\ connSt' = [d \in ConnIds |->
                    IF d \in HandlerCloses(Detailed) /\ connSt[d] = "open"
                    THEN "closed" ELSE connSt[d]]
    /\ hPc' = "fin_chan"
    /\ RFrame
    /\ UNCHANGED <<chanSt, relay, hR, hData, hExc, sent, inq, outq, peerEof,
                   stalled>>

\* line 87: chan.close(); the thread ends, with the exception if there is one
HFinChan ==
    /\ hPc = "fin_chan"
    /\ chanSt' = [d \in ConnIds |->
                    IF d \in HandlerCloses(Detailed) /\ chanSt[d] = "open"
                    THEN "closed" ELSE chanSt[d]]
    /\ relay' = [relay EXCEPT ![Detailed] = IF hExc THEN "failed" ELSE "ended"]
    /\ hPc' = "done"
    /\ RFrame
    /\ UNCHANGED <<connSt, hR, hData, hExc, sent, inq, outq, peerEof, stalled>>

\* the handler's own end of direction d is open
EndOpen(d) ==
    IF d = "up" THEN connSt[Detailed] = "open" ELSE chanSt[Detailed] = "open"

\* the peer of a direction writes one more byte; the k-th byte it writes is
\* the number k
PeerSends(d) ==
    /\ Len(sent[d]) < MaxSent
    /\ SrcOf(d) \notin peerEof
    /\ EndOpen(d)
    /\ sent' = [sent EXCEPT ![d] = Append(sent[d], Len(sent[d]) + 1)]
    /\ inq' = [inq EXCEPT ![d] = Append(inq[d], Len(sent[d]) + 1)]
    /\ RFrame
    /\ UNCHANGED <<connSt, chanSt, relay, hPc, hR, hData, hExc, outq, peerEof,
                   stalled>>

\* the peer of an end closes its side
PeerCloses(e) ==
    /\ e \notin peerEof
    /\ peerEof' = peerEof \cup {e}
    /\ RFrame
    /\ UNCHANGED <<connSt, chanSt, relay, hPc, hR, hData, hExc, sent, inq,
                   outq, stalled>>

\* the destination of a direction stops accepting writes (a full send
\* buffer, a channel window the server does not reopen)
Stall(d) ==
    /\ d \notin stalled
    /\ hPc \notin {"off", "done"}
    /\ stalled' = stalled \cup {d}
    /\ RFrame
    /\ UNCHANGED <<connSt, chanSt, relay, hPc, hR, hData, hExc, sent, inq,
                   outq, peerEof>>

\* and accepts them again
Unstall(d) ==
    /\ d \in stalled
    /\ stalled' = stalled \ {d}
    /\ RFrame
    /\ UNCHANGED <<connSt, chanSt, relay, hPc, hR, hData, hExc, sent, inq,
                   outq, peerEof>>

HandlerStep ==
    \/ HSelect
    \/ HTest
    \/ HRecv
    \/ HSend
    \/ HFinSock
    \/ HFinChan

\* a forwarder that listens and has handed two connections to their
\* handlers (run() lines 31-49 twice); the handler of the first is followed
\* in detail and has reached its select
InitRelay ==
    /\ CoreInit /\ dotenv = [k \in Keys |-> "a"]
    /\ fRunPc = "r_accept" /\ fStopPc = "idle"
    /\ fRunning = TRUE /\ fSockRef = TRUE /\ fSockSt = "listening"
    /\ backlog = 0 /\ fCur = 0 /\ nextConn = 2
    /\ connSt = [c \in ConnIds |-> IF c <= 2 THEN "open" ELSE "none"]
    /\ chanSt = [c \in ConnIds |-> IF c <= 2 THEN "open" ELSE "none"]
    /\ relay = [c \in ConnIds |-> IF c <= 2 THEN "relaying" ELSE "none"]
    /\ moved = [c \in ConnIds |-> 0]
    /\ hPc = "select" /\ RelayNew
    /\ WinIdle /\ QryIdle /\ UiIdle

NextRelay ==
    \/ HandlerStep
    \/ HRaise
    \/ \E d \in Dirs : PeerSends(d)
    \/ \E e \in Ends : PeerCloses(e)
    \/ \E d \in Dirs : Stall(d)
    \/ \E d \in Dirs : Unstall(d)

SpecRelay == InitRelay /\ [][NextRelay]_allVars

\* The handler thread is scheduled: it takes its next step when it has one,
\* also when a destination that stalls and resumes lets it write only now
\* and then.  The peers write, close, stall and resume when they do.
SpecRelayLive == SpecRelay /\ SF_allVars(HandlerStep)

\* the handler has left its loop
HandlerLeft == hPc \in {"fin_sock", "fin_chan", "done"}

\* C31: the handler leaves its loop exactly when a recv returns no data (the
\* peer of that end has closed and nothing waits) or a call raises; it then
\* closes its own socket and its own channel and ends, so a relay that has
\* ended has both closed; no step of it changes the socket, the channel or
\* the handler of another connection; and an end of file that waits at an
\* end is reached unless a destination stalls.
C31_RelayEndsOnEofOrError ==
    /\ [](relay[Detailed] \in {"ended", "failed"} =>
             (connSt[Detailed] = "closed" /\ chanSt[Detailed] = "closed"))
    /\ [][/\ (hPc \in {"c_recv", "ch_recv"} /\ hPc' # hPc
                /\ inq[DirAt(hPc)] = <<>>) => hPc' = "fin_sock"
          /\ (hExc' /\ ~hExc) => hPc' = "fin_sock"
          /\ (hPc' = "fin_sock" /\ hPc # "fin_sock") =>
                \/ hExc'
                \/ /\ hPc \in {"c_recv", "ch_recv"}
                   /\ inq[DirAt(hPc)] = <<>>
                   /\ SrcOf(DirAt(hPc)) \in peerEof
          /\ \A c \in ConnIds \ {Detailed} :
                /\ connSt'[c] = connSt[c]
                /\ chanSt'[c] = chanSt[c]
                /\ relay'[c] = relay[c]]_allVars
    /\ (hPc = "fin_sock") ~> (relay[Detailed] \in {"ended", "failed"})
    /\ ((\E d \in Dirs : SrcOf(d) \in peerEof) /\ stalled = {})
          ~> (hPc = "done" \/ stalled # {})

\* the client closed after its bytes went up: the relay has ended with both
\* its ends closed, beside a second connection that is still relayed
C31_Witness ==
    /\ relay[Detailed] = "ended" /\ hPc = "done" /\ ~hExc
    /\ outq["up"] # <<>>
    /\ connSt[Detailed] = "closed" /\ chanSt[Detailed] = "closed"
    /\ \E c \in ConnIds \ {Detailed} :
          relay[c] = "relaying" /\ connSt[c] = "open" /\ chanSt[c] = "open"

\* C32: in each direction the bytes delivered are at every moment the first
\* of the bytes the peer wrote, in the order it wrote them, and never more
\* than the handler has received; when the handler is back at select every
\* byte it has received has been delivered.
C32_DeliveredIsPrefix ==
    \A d \in Dirs :
       /\ Len(outq[d]) + Len(inq[d]) <= Len(sent[d])
       /\ outq[d] = SubSeq(sent[d], 1, Len(outq[d]))
       /\ hPc = "select" => Len(outq[d]) + Len(inq[d]) = Len(sent[d])

\* two bytes have gone up and two have come down
C32_Witness ==
    /\ Len(outq["up"]) >= 2 /\ Len(outq["down"]) >= 2
    /\ hPc = "select"

\* bytes of direction d that the peer has written and the destination has
\* not got
Pending(d) == Len(outq[d]) < Len(sent[d])

\* the direction against d
Opposite(d) == IF d = "up" THEN "down" ELSE "up"

\* what is pending in a direction whose own destination accepts writes gets
\* delivered, the relay ends, or that destination stalls
Forwarded(d) ==
    (Pending(d) /\ d \notin stalled)
       ~> (~Pending(d) \/ d \in stalled \/ HandlerLeft)

\* C33: while one direction is stalled, bytes that wait in the other
\* direction are still delivered.
C33_StalledDirectionDoesNotBlock == Forwarded("up") /\ Forwarded("down")

\* ------------------------------- disconnect() over the forwarder in detail
\* SSHDatabaseConnector.disconnect with its forwarder.stop() and join run
\* statement by statement against the run thread and the handler threads.

\* a join without timeout returns when run() has ended
JoinWaitsForRun == fRunPc = "r_done"

\* line 235: self.forwarder.join(timeout=2.0) returns after two seconds
\* whether or not run() has ended
JoinReturns == TRUE

\* line 234: disconnect() enters self.forwarder.stop(), which clears the
\* flag (line 55)
DStopCall(t) ==
    /\ pc[t] = "d_fwd_stop"
    /\ cForwarder[self[t]] # 0
    /\ fStopPc = "idle"
    /\ fRunning' = FALSE
    /\ fStopPc' = "st_test"
    /\ pc' = [pc EXCEPT ![t] = "d_fwd_join"]
    /\ UNCHANGED <<storeVars, qmVars, connVars, resVars, callVars, appVars,
                   winVars, qryVars, detailVars, fRunPc, fSockRef, fSockSt,
                   backlog, fCur, nextConn, connSt, chanSt, relay, moved>>

\* lines 235-236: stop() has returned; join and is_alive()
DJoin(t) ==
    /\ pc[t] = "d_fwd_join"
    /\ fStopPc = "done"
    /\ JoinReturns
    /\ fwdSt' = [fwdSt EXCEPT ![cForwarder[self[t]]] =
                    IF fRunPc = "r_done" THEN "dead"
                    ELSE IF fSockSt = "listening" THEN "listening"
                    ELSE "starting"]
    /\ pc' = [pc EXCEPT ![t] = "d_fwd_clear"]
    /\ UNCHANGED <<storeVars, qmVars, connVars, clientSt, transportLive,
                   engineLive, callVars, appVars, extVars>>

\* the steps of the thread that called disconnect()
DisconnectOverForwarder(t) ==
    \/ DisconnectTest(t)
    \/ DisposeEngine(t)
    \/ DStopCall(t)
    \/ StopStep
    \/ DJoin(t)
    \/ CloseTransport(t)
    \/ CloseClient(t)
    \/ DisconnectClear(t)

\* The connector after connect_over_ssh raised at create_engine (lines
\* 195-205): client, transport and forwarder are set and the engine is not
CoreHalfConnected ==
    /\ dotenv = [k \in Keys |-> "a"]
    /\ environ = [k \in Keys |-> "a"]
    /\ keyring = NoCreds
    /\ qmConnector = 1
    /\ qmEngine = 0
    /\ nextId = 1
    /\ cEngine = [c \in Ids |-> 0]
    /\ cClient = [c \in Ids |-> IF c = 1 THEN 1 ELSE 0]
    /\ cTransport = [c \in Ids |-> IF c = 1 THEN 1 ELSE 0]
    /\ cForwarder = [c \in Ids |-> IF c = 1 THEN 1 ELSE 0]
    /\ cCreds = [c \in Ids |-> IF c = 1 THEN [k \in Keys |-> "a"] ELSE NoCreds]
    /\ clientSt = [a \in Ids |-> IF a = 1 THEN "open" ELSE "none"]
    /\ transportLive = [a \in Ids |-> a = 1]
    /\ fwdSt = [a \in Ids |-> IF a = 1 THEN "starting" ELSE "none"]
    /\ engineLive = [a \in Ids |-> FALSE]
    /\ pc = [t \in Threads |-> "idle"]
    /\ self = [t \in Threads |-> IF t = Gui THEN 1 ELSE 0]
    /\ att = [t \in Threads |-> IF t = Gui THEN 1 ELSE 0]
    /\ retv = [t \in Threads |-> 0]
    /\ ctx = [t \in Threads |-> "api"]
    /\ lastOp = [t \in Threads |-> IF t = Gui THEN "connect" ELSE "none"]
    /\ ret = [t \in Threads |-> IF t = Gui THEN "raised" ELSE "none"]
    /\ isClosing = FALSE
    /\ exited = FALSE

\* disconnect() is called either on that connector, whose forwarder thread
\* was started (line 188) and has run nothing yet, or on a connected one,
\* whose forwarder listens and relays the connection of the engine's pool
InitDisconnect ==
    /\ fStopPc = "idle" /\ backlog = 0 /\ fCur = 0
    /\ moved = [c \in ConnIds |-> 0]
    /\ \/ /\ CoreHalfConnected
          /\ fRunPc = "r_sock" /\ ForwarderNew
       \/ /\ CoreConnected
          /\ fRunPc = "r_accept"
          /\ fRunning = TRUE /\ fSockRef = TRUE /\ fSockSt = "listening"
          /\ nextConn = 1
          /\ connSt = [c \in ConnIds |-> IF c = 1 THEN "open" ELSE "none"]
          /\ chanSt = [c \in ConnIds |-> IF c = 1 THEN "open" ELSE "none"]
          /\ relay = [c \in ConnIds |-> IF c = 1 THEN "relaying" ELSE "none"]
    /\ WinIdle /\ QryIdle /\ DetailIdle

NextDisconnect ==
    \/ DisconnectCall(Gui)
    \/ DisconnectOverForwarder(Gui)
    \/ RunStep
    \/ RunOpenChannelFails
    \/ ClientConnect
    \/ \E c \in ConnIds : HandlerEof(c)
    \/ \E c \in ConnIds : HandlerFails(c)

SpecDisconnect == InitDisconnect /\ [][NextDisconnect]_allVars

\* The thread that called disconnect() is scheduled.  The run thread, the
\* handler threads and the clients take their steps or do not.
SpecDisconnectLive ==
    SpecDisconnect /\ WF_allVars(DisconnectOverForwarder(Gui))

\* disconnect() has returned and connector c holds nothing
Disconnected(c) ==
    /\ pc[Gui] = "idle" /\ lastOp[Gui] = "disconnect" /\ ret[Gui] = "true"
    /\ cEngine[c] = 0 /\ cForwarder[c] = 0 /\ cTransport[c] = 0
    /\ cClient[c] = 0

\* C34: a stop() that was entered returns and a disconnect() that was
\* called returns with every field of the connector None, whatever the run
\* thread and the handler threads do or fail to do meanwhile; stop() changes
\* nothing of a handler or of its connection.
C34_DisconnectDoesNotWait ==
    /\ (fStopPc = "st_test") ~> (fStopPc = "done")
    /\ (pc[Gui] = "d_eng") ~> Disconnected(1)
    /\ [][fStopPc' # fStopPc =>
             UNCHANGED <<connSt, chanSt, relay, moved>>]_allVars

\* disconnect() has returned while a handler still relays and run() has
\* not ended
C34_Witness ==
    /\ Disconnected(1)
    /\ fStopPc = "done"
    /\ fRunPc # "r_done"
    /\ \E c \in ConnIds : relay[c] = "relaying"

\* stop() has been called
StopCalled == fStopPc \notin {"off", "idle"}

\* C39: once stop() has been called no channel is opened and no handler
\* thread is started: none for the connection stop() itself makes to wake
\* accept(), and none for any other.
C39_NoRelayAfterStop ==
    [][StopCalled =>
          \A c \in ConnIds :
             /\ chanSt'[c] = "open" => chanSt[c] = "open"
             /\ relay'[c] = "relaying" => relay[c] = "relaying"]_allVars

\* accept() returned the connection stop() made (no client had connected)
\* and run() has opened a channel for it and started its handler
DummyProxied ==
    /\ fStopPc = "done"
    /\ nextConn = 1 /\ relay[1] = "relaying" /\ chanSt[1] = "open"
    /\ fRunPc = "r_done"

\* thread t is at the engine.dispose() of QueryManager.close (line 264) with
\* an engine to dispose
DisposesOutsideDisconnect(t) == pc[t] = "cl_eng" /\ qmEngine # 0

\* C35: an engine is disposed, a forwarder stopped, a transport or a client
\* closed only by a statement of SSHDatabaseConnector.disconnect, and no
\* other method calls dispose() on the engine.
C35_OnlyDisconnectCloses ==
    [][\A t \in Threads :
          /\ ~(DisposesOutsideDisconnect(t) /\ pc'[t] # pc[t])
          /\ (\E a \in Ids : engineLive[a] /\ ~engineLive'[a])
                => \E u \in Threads : pc[u] = "d_eng_dispose"
          /\ (\E a \in Ids : fwdSt[a] = "listening" /\ fwdSt'[a] = "dead")
                => \E u \in Threads : pc[u] = "d_fwd_stop"
          /\ (\E a \in Ids : transportLive[a] /\ ~transportLive'[a])
                => \E u \in Threads : pc[u] \in {"d_tr_close", "d_cl_close"}
          /\ (\E a \in Ids : clientSt[a] = "open" /\ clientSt'[a] = "closed")
                => \E u \in Threads : pc[u] = "d_cl_close"]_vars

\* --------------------------------------- QueryManager.connect and close
\* a caller invokes QueryManager.close() (line 255)
QmClose(t) ==
    /\ pc[t] = "idle"
    /\ Enter(t, 0, "qmclose")
    /\ Goto(t, "cl_start")
    /\ UNCHANGED <<storeVars, qmVars, connVars, resVars, appVars, lastOp, ret>>

\* One caller that calls connect() and close() of the QueryManager one after
\* the other, in any order; no call to a server or a library is refused.
NextClose ==
    \/ ConnectStep(Gui)
    \/ QmClose(Gui)
    \/ CloseConnector(Gui)
    \/ DisconnectStep(Gui)
    \/ CloseEngine(Gui)
    \/ \E a \in Ids : ForwarderRun(a)

SpecClose == InitThreads /\ [][NextClose]_vars

\* this step is connect() of thread t returning True: from line 53 after
\* line 52, or at once because an engine is held
ConnectReturnsTrue(t) ==
    /\ pc[t] \in {"idle", "c_store"}
    /\ pc'[t] = "idle" /\ lastOp'[t] = "connect" /\ ret'[t] = "true"
    /\ <<pc[t], lastOp[t], ret[t]>> # <<pc'[t], lastOp'[t], ret'[t]>>

\* the engine the QueryManager holds is not disposed and the forwarder, the
\* transport and the client of its connector are up
SessionLive ==
    /\ qmEngine # 0 /\ engineLive[qmEngine]
    /\ qmConnector # 0
    /\ TunnelUp(qmConnector)
    /\ cClient[qmConnector] # 0 /\ clientSt[cClient[qmConnector]] = "open"

\* C40: when connect() returns True the QueryManager holds a live session,
\* whatever calls of connect() and close() came before.
C40_ConnectTrueMeansLive ==
    [][\A t \in Threads : ConnectReturnsTrue(t) => SessionLive']_vars

\* ------------------------------------------------ the threads of the GUI
\* MetricsApp.on_run, _run_query_worker, log, safe_after and on_close, and
\* UserSearchWindow.run_search and _search_worker, statement by statement.

\* a target that is called where it stands runs on the caller's thread
RunsOnCaller(target) == "main"

\* gui.py lines 1059-1061, user_search.py line 99:
\* threading.Thread(target=...).start() runs the target on a thread of its
\* own
RunsOn(target) == target

QThread == RunsOn("qworker")
SThread == RunsOn("sworker")

\* something done by a thread; for a line logged and for a callback
\* scheduled, whether is_closing was set at that moment
Ev(kind, what, by) ==
    [kind |-> kind, what |-> what, by |-> by,
     closing |-> isClosing /\ kind \in {"log", "schedule"}]

\* events holds what the last step did, and where the worker was when
\* on_close set is_closing
Did(evs) ==
    events' = {e \in events : e.kind = "close" /\ e.what # "again"} \cup evs

\* the statements of the worker that call self.log (lines 1084, 1108/1110,
\* 1148) and those that call self.safe_after (lines 1095, 1135, 1140, 1149,
\* 1152)
LogSites == {"w_abort_log", "w_log", "w_exc_log"}
AfterSites == {"w_dates_box", "w_render", "w_status", "w_exc_box", "w_fin"}

\* the statement that follows each of them
AfterSite(at) ==
    CASE at = "w_abort_log" -> "w_fin"
      [] at = "w_dates_box" -> "w_fin"
      [] at = "w_log" -> "w_render"
      [] at = "w_render" -> "w_status"
      [] at = "w_status" -> "w_fin"
      [] at = "w_exc_log" -> "w_exc_box"
      [] at = "w_exc_box" -> "w_fin"
      [] at = "w_fin" -> "done"

\* the callback the call made at a statement hands to root.after: _append
\* from log (line 887), the one that is its argument from safe_after
CallbackOf(at) ==
    CASE at \in LogSites -> "append"
      [] at \in {"w_dates_box", "w_exc_box"} -> "showerror"
      [] at = "w_render" -> "render"
      [] at = "w_status" -> "status"
      [] at = "w_fin" -> "stop_timer"

\* a safe_after that schedules whatever is_closing says
SafeAfterNeverSkips == FALSE

\* line 912: "if self.is_closing: return"
SafeAfterSkips == isClosing

\* line 870: "if self.is_closing: return"
LogSkips == isClosing

\* the worker at statement at, outside any call
At(at) == [at |-> at, sub |-> "body"]

UFrame ==
    UNCHANGED <<storeVars, qmVars, connVars, resVars, pc, callVars, fwdVars,
                winVars, qryVars, rlyVars>>

\* on_run (lines 1054-1061): read the filter value, start the timer, start
\* the worker thread
OnRun ==
    /\ uiPc = "loop"
    /\ qw.at \in {"off", "done"}
    /\ Did({Ev("widget", "filter_value", "main"),
                              Ev("widget", "timer_label", "main")})
    /\ qw' = At("w_connect")
    /\ UFrame
    /\ UNCHANGED <<appVars, uiPc, swPc, afters>>

\* run_search (user_search.py lines 84-99): read the entry, disable the
\* button, start the search worker
RunSearch ==
    /\ uiPc = "loop"
    /\ swPc \in {"off", "done"}
    /\ Did({Ev("widget", "search_entry", "main")})
    /\ swPc' = "s_connect"
    /\ UFrame
    /\ UNCHANGED <<appVars, uiPc, qw, afters>>

\* the main loop runs a callback that was scheduled
RunAfter ==
    /\ uiPc = "loop"
    /\ \E cb \in afters :
          /\ afters' = afters \ {cb}
          /\ Did({Ev("widget", "callback", "main")})
    /\ UFrame
    /\ UNCHANGED <<appVars, uiPc, qw, swPc>>

\* on_close, lines 1202-1204: the first call sets is_closing
OnCloseSet ==
    /\ uiPc = "loop"
    /\ ~isClosing
    /\ isClosing' = TRUE
    /\ Did({Ev("close", qw.at, "main")})
    /\ uiPc' = "oc_save"
    /\ UFrame
    /\ UNCHANGED <<exited, qw, swPc, afters>>

\* lines 1205-1235: log() returns at once; the widgets are read and the
\* configuration is saved
OnCloseSave ==
    /\ uiPc = "oc_save"
    /\ Did({Ev("widget", "config", "main")})
    /\ uiPc' = "oc_cancel"
    /\ UFrame
    /\ UNCHANGED <<appVars, qw, swPc, afters>>

\* line 1238: _cancel_all_afters_shutdown
OnCloseCancel ==
    /\ uiPc = "oc_cancel"
    /\ afters' = {}
    /\ uiPc' = "oc_destroy"
    /\ UFrame
    /\ Did({})
    /\ UNCHANGED <<appVars, qw, swPc>>

\* lines 1241-1257: no thread is joined; withdraw, quit, destroy
OnCloseDestroy ==
    /\ uiPc = "oc_destroy"
    /\ uiPc' = "gone"
    /\ UFrame
    /\ Did({})
    /\ UNCHANGED <<appVars, qw, swPc, afters>>

\* lines 1202-1203: on_close is called once more
OnCloseAgain ==
    /\ uiPc = "gone"
    /\ isClosing
    /\ Did({Ev("close", "again", "main")})
    /\ UFrame
    /\ UNCHANGED <<appVars, uiPc, qw, swPc, afters>>

WFrame == UFrame /\ UNCHANGED <<appVars, uiPc, swPc>>

\* line 1083: query_manager.connect() gives True, gives False or raises
WConnect ==
    /\ qw = At("w_connect")
    /\ Did({Ev("db", "connect", QThread)})
    /\ \E to \in {"w_cols", "w_abort_log", "w_exc"} : qw' = At(to)
    /\ WFrame /\ UNCHANGED afters

\* line 1088: get_selected_table_columns reads the checkbox variables
WCols ==
    /\ qw = At("w_cols")
    /\ Did({Ev("widget", "col_vars", QThread)})
    /\ qw' = At("w_dates")
    /\ WFrame /\ UNCHANGED afters

\* lines 1092-1096: _get_validated_date_range reads and rewrites the two
\* date entries (lines 171-206) and returns or raises ValueError
WDates ==
    /\ qw = At("w_dates")
    /\ Did({Ev("widget", "date_entries", QThread)})
    /\ \E to \in {"w_query", "w_dates_box"} : qw' = At(to)
    /\ WFrame /\ UNCHANGED afters

\* lines 1098-1104: the filter widgets are read and run_query is entered:
\* bounds resolution and existence probe (query_manager.py lines 92-124),
\* which end in NoDataInWindow or go on to the fetch
WQuery ==
    /\ qw = At("w_query")
    /\ Did({Ev("widget", "filter_value", QThread),
                              Ev("db", "bounds", QThread),
                              Ev("db", "probe", QThread)})
    /\ \E to \in {"w_fetch", "w_exc"} : qw' = At(to)
    /\ WFrame /\ UNCHANGED afters

\* query_manager.py lines 190-192: the fetch returns or raises
WFetch ==
    /\ qw = At("w_fetch")
    /\ Did({Ev("db", "fetch", QThread)})
    /\ \E to \in {"w_log", "w_exc"} : qw' = At(to)
    /\ WFrame /\ UNCHANGED afters

\* line 1147: "if not self.is_closing"
WExcTest ==
    /\ qw = At("w_exc")
    /\ qw' = At(IF isClosing THEN "w_fin" ELSE "w_exc_log")
    /\ WFrame /\ UNCHANGED afters /\ Did({})

\* line 1137: an empty frame sets no status
WStatusSkip ==
    /\ qw = At("w_status")
    /\ qw' = At(AfterSite("w_status"))
    /\ WFrame /\ UNCHANGED afters /\ Did({})

\* log, line 870: return when closing, else go on to print
WLogTest ==
    /\ qw.at \in LogSites /\ qw.sub = "body"
    /\ qw' = IF LogSkips THEN At(AfterSite(qw.at))
             ELSE [qw EXCEPT !.sub = "print"]
    /\ WFrame /\ UNCHANGED afters /\ Did({})

\* log, lines 872-887: print the line; not on the main thread, so hand
\* _append to safe_after
WLogPrint ==
    /\ qw.at \in LogSites /\ qw.sub = "print"
    /\ Did({Ev("log", qw.at, QThread)})
    /\ qw' = [qw EXCEPT !.sub = "after"]
    /\ WFrame /\ UNCHANGED afters

\* safe_after, line 912, called by the worker or by log
WAfterTest ==
    /\ \/ qw.at \in AfterSites /\ qw.sub = "body"
       \/ qw.at \in LogSites /\ qw.sub = "after"
    /\ qw' = IF SafeAfterSkips THEN At(AfterSite(qw.at))
             ELSE [qw EXCEPT !.sub = "do"]
    /\ WFrame /\ UNCHANGED afters /\ Did({})

\* safe_after, lines 914-920: root.after schedules the callback; on a
\* destroyed root it raises, which is caught and handed to log, which
\* returns at once
WAfterDo ==
    /\ qw.sub = "do"
    /\ IF uiPc = "gone"
       THEN UNCHANGED afters /\ Did({})
       ELSE /\ afters' = afters \cup {CallbackOf(qw.at)}
            /\ Did({Ev("schedule", CallbackOf(qw.at), QThread)})
    /\ qw' = At(AfterSite(qw.at))
    /\ WFrame

SFrame == UFrame /\ UNCHANGED <<appVars, uiPc, qw>>

\* user_search.py line 125: query_manager.connect(); False gives an empty
\* frame, an exception goes to line 215
SConnect ==
    /\ swPc = "s_connect"
    /\ Did({Ev("db", "connect", SThread)})
    /\ swPc' \in {"s_search", "s_after"}
    /\ SFrame /\ UNCHANGED afters

\* lines 196-198: the search statement
SSearch ==
    /\ swPc = "s_search"
    /\ Did({Ev("db", "search", SThread)})
    /\ swPc' = "s_after"
    /\ SFrame /\ UNCHANGED afters

\* lines 214-224: self.top.after hands the update of the lists to the main
\* loop; on a destroyed window it raises
SAfter ==
    /\ swPc = "s_after"
    /\ IF uiPc = "gone"
       THEN UNCHANGED afters /\ Did({})
       ELSE /\ afters' = afters \cup {"s_update"}
            /\ Did({Ev("schedule", "s_update", SThread)})
    /\ swPc' = "done"
    /\ SFrame

\* the application after MetricsApp.__init__, in its main loop
InitUi ==
    /\ CoreInit /\ dotenv = [k \in Keys |-> "a"]
    /\ FwdIdle /\ WinIdle /\ QryIdle /\ RlyIdle
    /\ uiPc = "loop" /\ UiNew

NextUi ==
    \/ OnRun
    \/ RunSearch
    \/ RunAfter
    \/ OnCloseSet
    \/ OnCloseSave
    \/ OnCloseCancel
    \/ OnCloseDestroy
    \/ OnCloseAgain
    \/ WConnect
    \/ WCols
    \/ WDates
    \/ WQuery
    \/ WFetch
    \/ WExcTest
    \/ WStatusSkip
    \/ WLogTest
    \/ WLogPrint
    \/ WAfterTest
    \/ WAfterDo
    \/ SConnect
    \/ SSearch
    \/ SAfter

SpecUi == InitUi /\ [][NextUi]_allVars

\* ------------------------------------------------ claims on the threads

\* the calls of QueryManager that reach the database
DbCalls == {"connect", "bounds", "probe", "fetch", "search"}

\* C36: every call of the query manager that touches the database
\* (connect, bounds resolution, existence probe, fetch, user search) is
\* made by a worker thread, never by the main thread, which renders.
C36_DatabaseCallsOnWorkers ==
    \A e \in events :
        e.kind = "db" =>
            /\ e.what \in DbCalls
            /\ e.by \in {"qworker", "sworker"}

\* the query worker has fetched while the search worker ran its statement
\* or had just finished
C36_Witness ==
    /\ \E e \in events : e.kind = "db" /\ e.what = "fetch" /\ e.by = "qworker"
    /\ swPc \in {"s_after", "done"}

\* the statements of the worker from its start to the return of the fetch
InFlight == {"w_connect", "w_cols", "w_dates", "w_query", "w_fetch"}

\* on_close set is_closing while the query was in flight
ClosedInFlight ==
    \E e \in events : e.kind = "close" /\ e.what \in InFlight

\* C37: once on_close has set is_closing while a query is in flight, the
\* worker logs nothing and schedules no callback (rendering, status,
\* message box) for its result; and a second call of on_close changes
\* nothing.
C37_ResultDiscardedAfterClose ==
    /\ [](ClosedInFlight =>
            \A e \in events :
                e.by = QThread => e.kind \notin {"log", "schedule"})
    /\ [][(uiPc = "gone" /\ Ev("close", "again", "main") \in events')
            => UNCHANGED <<vars, uiPc, qw, swPc, afters>>]_allVars

\* is_closing was set during the fetch, the fetch returned, the worker ran
\* to its end, and on_close was called again
C37_Witness ==
    /\ \E e \in events : e.kind = "close" /\ e.what = "w_fetch"
    /\ Ev("close", "again", "main") \in events
    /\ qw = At("done")

\* C38: Tk widgets are read and modified only by the main thread; the
\* worker reaches them only through callbacks scheduled on the main loop.
C38_WidgetsOnMainThreadOnly ==
    \A e \in events : e.kind = "widget" => e.by = "main"

=============================================================================
